---- MODULE Spec2Model ----
(***************************************************************************)
(* Roadroller compression engine: the rANS coder (AnsEncoder, AnsDecoder), *)
(* the direct context model with its pooled lazy-reset tables, the         *)
(* compress/decompress drivers and the default-model fast path.            *)
(*                                                                         *)
(* JavaScript numbers are modelled as integers.  The 32-bit operators of   *)
(* the source (<<, >>, |, &) keep their width: Shl32 wraps to a signed     *)
(* 32-bit value exactly as `<<` does.                                      *)
(***************************************************************************)
EXTENDS Integers, Sequences, FiniteSets, TLC

VARIABLES enc, dec, world, drv

vars == <<enc, dec, world, drv>>

(***************************************************************************)
(* Bounds of the exploration.                                              *)
(***************************************************************************)
\* longest sequence of writeBit calls explored
MaxBits == 3

\* longest input, in bytes, given to the compression driver
MaxLen == 3

\* highest mark up to which a pooled model is released and built again
MaxMark == 3

(***************************************************************************)
(* 32-bit integer arithmetic of the host language.                         *)
(***************************************************************************)
\* -2^31, the smallest signed 32-bit value
MIN32 == (-1073741824) - 1073741824

\* JS `x << n` for a signed 32-bit x and a shift count already reduced to 0..31
Shl32(x, n) ==
    IF n = 0 THEN x
    ELSE IF n = 31 THEN (IF x % 2 = 1 THEN MIN32 ELSE 0)
    ELSE LET low  == x % (2^(31 - n))
             sign == (x \div (2^(31 - n))) % 2
         IN  IF sign = 1 THEN MIN32 + low * (2^n) ELSE low * (2^n)

\* the shift count JS actually uses: the low five bits of the right operand
ShiftCount(n) == n % 32

\* JS `(a / b) | 0` for |a| < 2^31 and b > 0: division truncated toward zero
TruncDiv(a, b) ==
    IF a >= 0 \/ a % b = 0 THEN a \div b ELSE (a \div b) + 1

\* JS `a % b` for b > 0: the remainder takes the sign of the dividend
JSRem(a, b) == a - b * TruncDiv(a, b)

\* true when the exact value q * 2^n does not fit below 2^31 (q >= 0)
ShlOverflows(q, n) == n > 0 /\ q >= 2^(31 - n)

ceilLog2(x) ==
    LET y1 == IF x > 65536 THEN 65536 ELSE 1
        n1 == IF x > 65536 THEN 17 ELSE 1
        y2 == IF x > y1 * 256 THEN y1 * 256 ELSE y1
        n2 == IF x > y1 * 256 THEN n1 + 8 ELSE n1
        y3 == IF x > y2 * 16 THEN y2 * 16 ELSE y2
        n3 == IF x > y2 * 16 THEN n2 + 4 ELSE n2
        y4 == IF x > y3 * 4 THEN y3 * 4 ELSE y3
        n4 == IF x > y3 * 4 THEN n3 + 2 ELSE n3
    IN  IF x > y4 * 2 THEN n4 + 1 ELSE n4

\* Array.prototype.reverse
Reverse(s) == IF s = <<>> THEN <<>> ELSE [i \in 1 .. Len(s) |-> s[Len(s) + 1 - i]]

(***************************************************************************)
(* rANS coder.                                                             *)
(***************************************************************************)
ANS_BITS == 28

\* outBits < 0 ? -outBits : 1 << outBits
OutSymbols(outBits) == IF outBits < 0 THEN -outBits ELSE 2^outBits

ProbScale(precision) == precision + 1

\* may be negative, in which case `<<` reduces it modulo 32
StateShift(outBits, precision) ==
    ANS_BITS - ceilLog2(OutSymbols(outBits)) - ProbScale(precision)

\* 1 << (ANS_BITS - ceilLog2(outSymbols)): the encoder's initial state and
\* the decoder's renormalization limit
RenormLimit(outBits) == 2^(ANS_BITS - ceilLog2(OutSymbols(outBits)))

\* (predictedFreq << 1) | 1
Prob(predictedFreq) == 2 * predictedFreq + 1

SymStart(bit, prob) == IF bit = 1 THEN 0 ELSE prob

SymSize(bit, prob, probScale) == IF bit = 1 THEN prob ELSE 2^probScale - prob

\* size * outSymbols << stateShift
MaxState(size, outBits, precision) ==
    Shl32(size * OutSymbols(outBits), ShiftCount(StateShift(outBits, precision)))

\* mutant of Renormalize: the renormalization loop left out
RenormalizeSkipped(state, maxState, outSymbols, buf) ==
    [hang |-> FALSE, state |-> state, buf |-> buf]

\* while (state >= maxState) { buf.push(state % outSymbols); state = (state / outSymbols) | 0; }
\* The loop never exits once an iteration leaves state unchanged.
RECURSIVE Renormalize(_, _, _, _)
Renormalize(state, maxState, outSymbols, buf) ==
    IF state < maxState THEN [hang |-> FALSE, state |-> state, buf |-> buf]
    ELSE LET next == TruncDiv(state, outSymbols)
         IN  IF next = state
             THEN [hang |-> TRUE, state |-> state, buf |-> buf]
             ELSE Renormalize(next, maxState, outSymbols,
                              Append(buf, JSRem(state, outSymbols)))

\* state = ((state / size | 0) << probScale) + state % size + start
AddBit(state, start, size, probScale) ==
    Shl32(TruncDiv(state, size), probScale) + JSRem(state, size) + start

\* the state-overflow check of finish(): state >= 0x80000000
StateOverflowCheck(state) == state > 2147483647

\* one iteration of the loop of finish() over the reversed input
EncodeOne(e, item) ==
    LET prob      == Prob(item.predictedFreq)
        probScale == ProbScale(e.precision)
        start     == SymStart(item.bit, prob)
        size      == SymSize(item.bit, prob, probScale)
        maxState  == MaxState(size, e.outBits, e.precision)
        r         == Renormalize(e.state, maxState, OutSymbols(e.outBits), e.buf)
        state2    == AddBit(r.state, start, size, probScale)
    IN  IF r.hang
        THEN [e EXCEPT !.pc = "hang"]
        ELSE [e EXCEPT !.state = state2,
                       !.buf = r.buf,
                       !.pending = Tail(e.pending),
                       !.overflow = e.overflow \/ r.state < 0
                                    \/ ShlOverflows(TruncDiv(r.state, size), probScale),
                       !.pc = IF StateOverflowCheck(state2) THEN "thrown" ELSE "encoding"]

\* writeBit's argument checks, in the order of the source
WriteBitError(e, bit, predictedFreq) ==
    IF bit # 0 /\ bit # 1 THEN "bad bit"
    ELSE IF predictedFreq < 0 \/ predictedFreq >= 2^e.precision THEN "bad predictedFreq"
    ELSE IF e.finished THEN "already finished"
    ELSE "none"

\* a renormalization loop that goes on while (this.state <= this.renormLimit)
RECURSIVE DecRenormalizeLate(_, _, _, _, _)
DecRenormalizeLate(state, offset, buf, outSymbols, limit) ==
    IF state > limit THEN [thrown |-> FALSE, state |-> state, offset |-> offset]
    ELSE IF offset >= Len(buf) THEN [thrown |-> TRUE, state |-> state, offset |-> offset]
    ELSE DecRenormalizeLate(state * outSymbols + (buf[offset + 1] % outSymbols),
                            offset + 1, buf, outSymbols, limit)

\* the decoder's renormalization loop
RECURSIVE DecRenormalize(_, _, _, _, _)
DecRenormalize(state, offset, buf, outSymbols, limit) ==
    IF state >= limit THEN [thrown |-> FALSE, state |-> state, offset |-> offset]
    ELSE IF offset >= Len(buf) THEN [thrown |-> TRUE, state |-> state, offset |-> offset]
    ELSE DecRenormalize(state * outSymbols + (buf[offset + 1] % outSymbols),
                        offset + 1, buf, outSymbols, limit)

\* AnsDecoder.readBit on a decoder record d; the result carries the bit read
ReadBit(d, predictedFreq) ==
    LET prob      == Prob(predictedFreq)
        probScale == ProbScale(d.precision)
        rem       == d.state % (2^probScale)
        bit       == IF rem < prob THEN 1 ELSE 0
        start     == SymStart(bit, prob)
        size      == SymSize(bit, prob, probScale)
        state1    == size * (d.state \div (2^probScale)) + rem - start
        r         == DecRenormalize(state1, d.offset, d.buf, d.outSymbols, d.renormLimit)
    IN  [d EXCEPT !.state = r.state,
                  !.offset = r.offset,
                  !.bit = bit,
                  !.pc = IF r.thrown THEN "thrown" ELSE "reading"]

NewDecoder(state, buf, outBits, precision) ==
    [pc |-> "reading", state |-> state, buf |-> buf, offset |-> 0,
     precision |-> precision, outSymbols |-> OutSymbols(outBits),
     renormLimit |-> RenormLimit(outBits), bit |-> 0, out |-> <<>>]

\* the compression driver when it is not in use
NoDriver == [pc |-> "none"]

NoDecoder ==
    [pc |-> "none", state |-> 0, buf |-> <<>>, offset |-> 0,
     precision |-> 0, outSymbols |-> 0, renormLimit |-> 0, bit |-> 0, out |-> <<>>]

(***************************************************************************)
(* ResourcePool and typed arrays.  An ArrayBuffer is a sequence of bytes   *)
(* in world.heap, named by its index; world.free lists the buffers given   *)
(* back to the pool, oldest first.  A typed array is a buffer read with an *)
(* element width of 1, 2 or 4 bytes, little-endian.                        *)
(***************************************************************************)
EmptyWorld == [heap |-> <<>>, free |-> <<>>]

Zeros(n) == [i \in 1 .. n |-> 0]

\* new ArrayBuffer(size), outside or inside the pool
NewBuffer(w, size) ==
    [w |-> [w EXCEPT !.heap = Append(@, Zeros(size))], id |-> Len(w.heap) + 1]

\* ResourcePool.allocate: the most recently released buffer of that size
allocate(w, size) ==
    LET avail == { i \in 1 .. Len(w.free) : Len(w.heap[w.free[i]]) = size }
    IN  IF avail = {} THEN NewBuffer(w, size)
        ELSE LET i == CHOOSE k \in avail : \A j \in avail : j <= k
             IN  [w  |-> [w EXCEPT !.free = SubSeq(@, 1, i - 1) \o SubSeq(@, i + 1, Len(@))],
                  id |-> w.free[i]]

\* ResourcePool.release
release(w, id) == [w EXCEPT !.free = Append(@, id)]

ElementBytes(nbits) == IF nbits <= 8 THEN 1 ELSE IF nbits <= 16 THEN 2 ELSE 4

newUintArray(w, pooled, nbits, length) ==
    IF pooled THEN allocate(w, length * ElementBytes(nbits))
    ELSE NewBuffer(w, length * ElementBytes(nbits))

\* array[i] for a typed array of the given element width over buffer bytes
Load(bytes, width, i) ==
    LET b == i * width
    IN  bytes[b + 1]
        + (IF width >= 2 THEN 256 * bytes[b + 2] ELSE 0)
        + (IF width = 4 THEN 65536 * bytes[b + 3] + 16777216 * bytes[b + 4] ELSE 0)

\* array[i] = v: the value is reduced modulo the element width
Store(bytes, width, i, v) ==
    LET b == i * width
    IN  [k \in 1 .. Len(bytes) |->
            IF k = b + 1 THEN v % 256
            ELSE IF k = b + 2 /\ width >= 2 THEN (v \div 256) % 256
            ELSE IF k = b + 3 /\ width = 4 THEN (v \div 65536) % 256
            ELSE IF k = b + 4 /\ width = 4 THEN (v \div 16777216) % 256
            ELSE bytes[k]]

\* array.fill(v)
Fill(bytes, width, v) ==
    [k \in 1 .. Len(bytes) |-> (v \div (256 ^ ((k - 1) % width))) % 256]

(***************************************************************************)
(* DirectContextModel.  The model record holds the buffer ids of its typed *)
(* arrays (0 for null/undefined), its mark and its bitContext.             *)
(***************************************************************************)
PredWidth(o) == ElementBytes(o.precision)

CountWidth(o) == ElementBytes(ceilLog2(o.modelMaxCount + 1))

\* 1 << (precision - 1)
Half(o) == Shl32(1, ShiftCount(o.precision - 1))

\* (context + this.bitContext) & ((1 << this.contextBits) - 1)
Slot(m, context) == (context + m.bitContext) % (2 ^ m.o.contextBits)

\* mutant of NewMark: the mark wraps without the confirmations being cleared
NewMarkNoFill(bytes, last) ==
    LET mark == bytes[last + 1] + 1
    IN  IF mark = 256 THEN [mark |-> 1, bytes |-> [bytes EXCEPT ![last + 1] = 1]]
        ELSE [mark |-> mark, bytes |-> [bytes EXCEPT ![last + 1] = mark]]

\* the choice of a new mark in the constructor
NewMark(bytes, last) ==
    LET mark == bytes[last + 1] + 1
    IN  IF mark = 256 THEN [mark |-> 1, bytes |-> [Fill(bytes, 1, 0) EXCEPT ![last + 1] = 1]]
        ELSE [mark |-> mark, bytes |-> [bytes EXCEPT ![last + 1] = mark]]

\* new DirectContextModel(options), with or without a resource pool
NewDirectContextModel(w, o, pooled) ==
    LET n  == 2 ^ o.contextBits
        a1 == newUintArray(w, pooled, o.precision, n)
        a2 == newUintArray(a1.w, pooled, ceilLog2(o.modelMaxCount + 1), n)
        a3 == newUintArray(a2.w, pooled, 8, n + 1)
        nm == NewMark(a3.w.heap[a3.id], n)
        m  == [kind |-> "direct", o |-> o, pooled |-> pooled,
               predictions |-> a1.id, counts |-> a2.id,
               confirmations |-> IF pooled THEN a3.id ELSE 0,
               mark |-> IF pooled THEN nm.mark ELSE 0, bitContext |-> 1]
    IN  IF pooled
        THEN [w |-> [a3.w EXCEPT !.heap[a3.id] = nm.bytes], m |-> m]
        ELSE [w |-> [a2.w EXCEPT !.heap[a1.id] = Fill(@, PredWidth(o), Half(o))], m |-> m]

\* the lazy reset at the start of predict(): what the slot holds afterwards
Confirm(w, m, ctx) ==
    IF m.confirmations # 0 /\ w.heap[m.confirmations][ctx + 1] # m.mark
    THEN [w EXCEPT !.heap[m.confirmations][ctx + 1] = m.mark,
                   !.heap[m.predictions] = Store(@, PredWidth(m.o), ctx, Half(m.o)),
                   !.heap[m.counts] = Store(@, CountWidth(m.o), ctx, 0)]
    ELSE w

\* DirectContextModel.predict(context)
DirectPredict(w, m, context) ==
    LET ctx == Slot(m, context)
        w1  == Confirm(w, m, ctx)
    IN  [w |-> w1, p |-> Load(w1.heap[m.predictions], PredWidth(m.o), ctx)]

\* modelRecipBaseCount is a JS number written as [m, e], standing for m * 2^e.
\* In double precision count + 1 / R is exactly count once R >= 2^53 (the sum
\* lies at most half an ulp above count and rounds to even).
BaseCountCancelled(R) == R.e >= 53

\* delta / (count + 1 / modelRecipBaseCount) | 0.  For the small R explored the
\* double quotient truncates to trunc(delta * R / (count * R + 1)), computed
\* here without leaving 32 bits.
Adjustment(delta, count, R) ==
    IF BaseCountCancelled(R) THEN TruncDiv(delta, count)
    ELSE LET r == R.m * (2 ^ R.e)
             D == count * r + 1
             a == TruncDiv(delta, D)
             b == delta - a * D
         IN  a * r + TruncDiv(b * r, D)

\* mutant of NextPrediction: the adjustment divides by the count alone
NextPredictionNoBase(o, pred, count, bit) ==
    LET sh    == ShiftCount(29 - o.precision)
        delta == Shl32(Shl32(bit, ShiftCount(o.precision)) - pred, sh)
    IN  pred + (TruncDiv(delta, count) \div (2 ^ sh))

\* the value added into predictions[context] by update()
NextPrediction(o, pred, count, bit) ==
    LET sh    == ShiftCount(29 - o.precision)
        delta == Shl32(Shl32(bit, ShiftCount(o.precision)) - pred, sh)
    IN  pred + (Adjustment(delta, count, o.modelRecipBaseCount) \div (2 ^ sh))

\* DirectContextModel.update(actualBit, context)
DirectUpdate(w, m, actualBit, context) ==
    LET ctx   == Slot(m, context)
        cw    == CountWidth(m.o)
        pw    == PredWidth(m.o)
        c0    == Load(w.heap[m.counts], cw, ctx)
        cnts  == IF c0 < m.o.modelMaxCount
                 THEN Store(w.heap[m.counts], cw, ctx, c0 + 1) ELSE w.heap[m.counts]
        c1    == Load(cnts, cw, ctx)
        pred  == Load(w.heap[m.predictions], pw, ctx)
    IN  [w |-> [w EXCEPT !.heap[m.counts] = cnts,
                         !.heap[m.predictions] =
                             Store(@, pw, ctx, NextPrediction(m.o, pred, c1, actualBit))],
         m |-> [m EXCEPT !.bitContext = Shl32(@, 1) + actualBit]]

\* DirectContextModel.flushByte
DirectFlushByte(m) == [m EXCEPT !.bitContext = 1]

\* mutant of DirectRelease: the arrays are still referenced after the release
DirectReleaseKeep(w, m) ==
    IF ~m.pooled THEN [w |-> w, m |-> m]
    ELSE [w |-> release(release(release(w, m.predictions), m.counts), m.confirmations),
          m |-> m]

\* DirectContextModel.release
DirectRelease(w, m) ==
    IF ~m.pooled THEN [w |-> w, m |-> m]
    ELSE LET w1 == IF m.predictions # 0 THEN release(w, m.predictions) ELSE w
             w2 == IF m.counts # 0 THEN release(w1, m.counts) ELSE w1
             w3 == IF m.confirmations # 0 THEN release(w2, m.confirmations) ELSE w2
         IN  [w |-> w3,
              m |-> [m EXCEPT !.predictions = 0, !.counts = 0, !.confirmations = 0]]

(***************************************************************************)
(* The coder as a state machine: a sequence of writeBit calls, finish()    *)
(* iteration by iteration, then a decoder reading the bits back.           *)
(***************************************************************************)
\* <<outBits, precision>> pairs explored.  ceilLog2(outSymbols) + precision + 1
\* is at most 28 for the first eight and 29..30 for the last four.
AnsConfigs ==
    { <<6, 21>>, <<8, 12>>, <<1, 1>>, <<24, 3>>, <<-10, 16>>, <<-3, 2>>,
      <<-96, 20>>, <<0, 4>>,
      <<6, 22>>, <<8, 21>>, <<-3, 26>>, <<-3, 27>> }

WithinLimits(outBits, precision) ==
    ceilLog2(OutSymbols(outBits)) + precision + 1 <= ANS_BITS

\* predicted frequencies tried for a precision: both ends, the middle, one odd
FreqSamples(precision) ==
    {0, 1, 2^(precision - 1), 2^precision - 1} \cap (0 .. 2^precision - 1)

\* bit arguments tried: the two bits and two other numbers
BitSamples == {0, 1, 2, -1}

NewEncoder(outBits, precision) ==
    [outBits |-> outBits, precision |-> precision, input |-> <<>>,
     finished |-> FALSE, pc |-> "open", pending |-> <<>>, state |-> 0,
     buf |-> <<>>, overflow |-> FALSE, err |-> "none"]

InitAns ==
    /\ \E c \in AnsConfigs : enc = NewEncoder(c[1], c[2])
    /\ dec = NoDecoder
    /\ world = EmptyWorld
    /\ drv = NoDriver

\* mutant of WriteBitThrows: the check of this.finished left out
WriteBitThrowsUnlessFinished(e, bit, predictedFreq, half) ==
    IF bit # 0 /\ bit # 1 THEN "bad bit"
    ELSE IF half # 0 THEN "bad predictedFreq"
    ELSE IF predictedFreq < 0 \/ predictedFreq >= 2^e.precision THEN "bad predictedFreq"
    ELSE "none"

\* what writeBit throws for the frequency predictedFreq + half / 2, a number
\* that is an integer (predictedFreq === ~~predictedFreq) when half is 0
WriteBitThrows(e, bit, predictedFreq, half) ==
    IF bit # 0 /\ bit # 1 THEN "bad bit"
    ELSE IF half # 0 THEN "bad predictedFreq"
    ELSE WriteBitError(e, bit, predictedFreq)

\* AnsEncoder.writeBit(bit, predictedFreq + half / 2)
WriteBit(bit, predictedFreq, half) ==
    /\ enc.pc \in {"open", "returned"}
    /\ Len(enc.input) < MaxBits
    /\ LET err == WriteBitThrows(enc, bit, predictedFreq, half)
       IN  enc' = IF err = "none"
                  THEN [enc EXCEPT !.input = Append(@, [bit |-> bit, predictedFreq |-> predictedFreq]),
                                   !.err = "none"]
                  ELSE [enc EXCEPT !.err = err]
    /\ UNCHANGED <<dec, world, drv>>

\* AnsEncoder.finish(): entry, up to the start of the loop
FinishBegin ==
    /\ enc.pc \in {"open", "returned"}
    /\ enc' = IF enc.finished
              THEN [enc EXCEPT !.err = "already finished"]
              ELSE [enc EXCEPT !.finished = TRUE,
                               !.state = RenormLimit(enc.outBits),
                               !.buf = <<>>,
                               !.pending = Reverse(enc.input),
                               !.err = "none",
                               !.pc = "encoding"]
    /\ UNCHANGED <<dec, world, drv>>

\* one iteration of the loop of finish()
FinishStep ==
    /\ enc.pc = "encoding"
    /\ enc.pending # <<>>
    /\ enc' = EncodeOne(enc, Head(enc.pending))
    /\ UNCHANGED <<dec, world, drv>>

\* mutant of FinishReturn: buf.reverse() left out
FinishReturnUnreversed ==
    /\ enc.pc = "encoding"
    /\ enc.pending = <<>>
    /\ enc' = [enc EXCEPT !.pc = "returned"]
    /\ UNCHANGED <<dec, world, drv>>

\* the end of finish(): buf.reverse(); return { state, buf }
FinishReturn ==
    /\ enc.pc = "encoding"
    /\ enc.pending = <<>>
    /\ enc' = [enc EXCEPT !.buf = Reverse(@), !.pc = "returned"]
    /\ UNCHANGED <<dec, world, drv>>

\* new AnsDecoder({ state, buf }, { outBits, precision })
DecoderNew ==
    /\ enc.pc = "returned"
    /\ dec.pc = "none"
    /\ WithinLimits(enc.outBits, enc.precision)
    /\ dec' = NewDecoder(enc.state, enc.buf, enc.outBits, enc.precision)
    /\ UNCHANGED <<enc, world, drv>>

\* AnsDecoder.readBit called with the frequency the encoder was given
DecoderReadBit ==
    /\ dec.pc = "reading"
    /\ Len(dec.out) < Len(enc.input)
    /\ LET d == ReadBit(dec, enc.input[Len(dec.out) + 1].predictedFreq)
       IN  dec' = IF d.pc = "thrown" THEN d ELSE [d EXCEPT !.out = Append(@, d.bit)]
    /\ UNCHANGED <<enc, world, drv>>

NextAns ==
    \/ \E bit \in BitSamples :
         \E f \in FreqSamples(enc.precision) \cup {-1, 2^enc.precision} :
            \E half \in {0, 1} : WriteBit(bit, f, half)
    \/ FinishBegin
    \/ FinishStep
    \/ FinishReturn
    \/ DecoderNew
    \/ DecoderReadBit

SpecAns == InitAns /\ [][NextAns]_vars

(***************************************************************************)
(* Properties of the coder.                                                *)
(***************************************************************************)
\* C2: for every output alphabet (a power of two or not) and precision within
\* the limits, a decoder built from the (state, buf) that finish() returned and
\* called with the same predictedFreq values in the same order never throws and
\* returns exactly the bits written, in the original order.
C2_AnsRoundTrip ==
    dec.pc # "none" =>
        /\ dec.pc = "reading"
        /\ Len(dec.out) <= Len(enc.input)
        /\ \A i \in 1 .. Len(dec.out) : dec.out[i] = enc.input[i].bit

\* a three-bit sequence with both bit values, coded over a 10-symbol alphabet,
\* read back completely with symbols pulled from the buffer
C2_Witness ==
    /\ dec.pc = "reading"
    /\ enc.outBits = -10
    /\ Len(enc.input) = 3
    /\ Len(dec.out) = 3
    /\ dec.offset > 1
    /\ \E i, j \in 1 .. 3 : enc.input[i].bit = 0 /\ enc.input[j].bit = 1

\* C4: within the documented limits (ceilLog2(outSymbols) + precision + 1 <= 28,
\* e.g. precision 21 with 6 output bits) the encoder state stays below 2^31
\* after every step of finish(): no step's exact value leaves the signed 32-bit
\* range, and finish() never throws the state-overflow error.
C4_NoStateOverflow ==
    WithinLimits(enc.outBits, enc.precision) =>
        /\ ~enc.overflow
        /\ enc.pc # "thrown"
        /\ enc.state >= 0
        /\ enc.state <= 2147483647

\* finish() returned at the edge of the limits (precision 21, 6 output bits)
\* after renormalizing on a three-bit input
C4_Witness ==
    /\ enc.pc = "returned"
    /\ enc.outBits = 6
    /\ enc.precision = 21
    /\ Len(enc.input) = 3
    /\ Len(enc.buf) > 0

\* C5: for every precision and outBits, finish() terminates, and a combination
\* beyond the state word width fails with the state-overflow error: finish()
\* never spins in its renormalization loop, and on a non-empty input an
\* out-of-limit combination never returns a (state, buf) pair.
C5_OverflowIsFatal ==
    /\ enc.pc # "hang"
    /\ (~WithinLimits(enc.outBits, enc.precision) /\ enc.input # <<>>) =>
            enc.pc # "returned"

\* the arguments break a rule of writeBit
BadWrite(e, bit, predictedFreq, half) ==
    \/ bit \notin {0, 1}
    \/ half # 0
    \/ predictedFreq \notin 0 .. 2^e.precision - 1

\* C11: writeBit throws and leaves the buffered sequence as it was whenever the bit
\* is not 0 or 1, the frequency is not an integer in [0, 2^precision), or finish()
\* has been called before; a second call of finish() throws as well.
C11_BadWriteThrows ==
    [][/\ \A bit \in BitSamples :
            \A f \in FreqSamples(enc.precision) \cup {-1, 2^enc.precision} :
               \A half \in {0, 1} :
                  WriteBit(bit, f, half) /\ (BadWrite(enc, bit, f, half) \/ enc.finished) =>
                      /\ enc'.err # "none"
                      /\ enc'.input = enc.input
                      /\ enc'.pc = enc.pc
       /\ FinishBegin /\ enc.finished =>
              /\ enc'.err = "already finished"
              /\ enc'.pc = enc.pc
              /\ enc'.state = enc.state
              /\ enc'.buf = enc.buf]_vars

\* a call on an encoder that had returned from finish() with two bits buffered
\* threw 'already finished' and the two bits are still there
C11_Witness ==
    /\ enc.pc = "returned"
    /\ enc.err = "already finished"
    /\ Len(enc.input) = 2

(***************************************************************************)
(* Doubles of the context mixer.  A double x is the integer nearest to     *)
(* x * FixedOne; products and quotients are truncated to that grid.        *)
(* Math.log and Math.exp occur only as the stretch of a table prediction   *)
(* and as the squashing of the weighted sum, tabulated for precision 3.    *)
(***************************************************************************)
FixedOne == 1024

FMul(a, b) == TruncDiv(a * b, FixedOne)

\* Math.log(prob / ((2 << precision) - prob)) * FixedOne for the odd prob
\* below 16 that a 3-bit prediction gives
StretchTable ==
    [prob \in {1, 3, 5, 7, 9, 11, 13, 15} |->
        CASE prob = 1 -> -2773 [] prob = 3 -> -1502 [] prob = 5 -> -807 [] prob = 7 -> -257
          [] prob = 9 -> 257 [] prob = 11 -> 807 [] prob = 13 -> 1502 [] prob = 15 -> 2773]

Stretch(prob, precision) == StretchTable[prob]

\* Math.log(k / (15 - k)) * FixedOne for even k: the least sum for which
\* ((2 << precision) - 1) / (1 + Math.exp(-sum)) truncates to k or more
SquashThreshold ==
    [k \in {2, 4, 6, 8, 10, 12, 14} |->
        CASE k = 2 -> -1917 [] k = 4 -> -1036 [] k = 6 -> -415 [] k = 8 -> 137
          [] k = 10 -> 710 [] k = 12 -> 1420 [] k = 14 -> 2702]

\* ((2 << precision) / (1 + Math.exp(-total))) | 1, which is 2 << precision
\* and 1 for a total from 10 on
SquashTo16(total, precision) ==
    2 * Cardinality({ k \in DOMAIN SquashThreshold : total >= SquashThreshold[k] }) + 1
    + (IF total >= 10 * FixedOne THEN 2 ELSE 0)

\* (((2 << precision) - 1) / (1 + Math.exp(-total))) | 1
Squash(total, precision) ==
    2 * Cardinality({ k \in DOMAIN SquashThreshold : total >= SquashThreshold[k] }) + 1

(***************************************************************************)
(* SparseContextModel, LogisticMixModel and DefaultModel.  A sparse model  *)
(* is its DirectContextModel part (dcm) with selector, recentBytes and     *)
(* sparseContext; the DefaultModel holds the sequence of its models.       *)
(***************************************************************************)
\* (x * 997) | 0 for a 32-bit x, without leaving 32 bits
Mul997(x) ==
    LET hi  == x \div 65536
        v   == (x % 65536) * 997
        top == (((hi * 997) % 65536) + (v \div 65536)) % 65536
    IN  (IF top >= 32768 THEN top - 65536 ELSE top) * 65536 + (v % 65536)

\* x + b wrapped to 32 bits
Add32(x, b) == IF x > 2147483647 - b THEN x - 2147483647 - 1 + b + MIN32 ELSE x + b

\* the number of i with (selector >> i) > 0
RECURSIVE SelectorLength(_)
SelectorLength(selector) == IF selector <= 0 THEN 0 ELSE 1 + SelectorLength(selector \div 2)

\* the loop of SparseContextModel.flushByte over recentBytes[i], i downwards,
\* for the loop state h = [i, context]
RECURSIVE SparseHash(_, _, _)
SparseHash(recentBytes, selector, h) ==
    IF h.i < 0 THEN h.context
    ELSE SparseHash(recentBytes, selector,
                    [i |-> h.i - 1,
                     context |-> IF (selector \div (2 ^ h.i)) % 2 = 1
                                 THEN Mul997(Add32(h.context, recentBytes[h.i + 1]))
                                 ELSE h.context])

\* new SparseContextModel({ ...options, sparseSelector })
Sparse(dcm, selector) ==
    [dcm |-> dcm, selector |-> selector, recentBytes |-> Zeros(SelectorLength(selector)),
     sparseContext |-> 0]

\* recentBytes.unshift(currentByte); recentBytes.pop()
ShiftIn(recentBytes, currentByte) ==
    IF recentBytes = <<>> THEN <<currentByte>>
    ELSE <<currentByte>> \o SubSeq(recentBytes, 1, Len(recentBytes) - 1)

\* SparseContextModel.flushByte(currentByte): an empty recentBytes takes the
\* byte at unshift and gives it to pop, and is back empty
SparseFlushByte(sm, currentByte) ==
    [sm EXCEPT !.dcm = DirectFlushByte(@),
               !.recentBytes = IF @ = <<>> THEN <<>> ELSE ShiftIn(@, currentByte),
               !.sparseContext =
                   IF sm.recentBytes = <<>> THEN 0
                   ELSE SparseHash(ShiftIn(sm.recentBytes, currentByte), sm.selector,
                                   [i |-> Len(sm.recentBytes) - 1, context |-> 0])]

\* new SparseContextModel({ ...options, sparseSelector }) for the next
\* selector, n being the DirectContextModel it is built on
SparseModelsAdd(r, n, o) ==
    [w |-> n.w, models |-> Append(r.models, Sparse(n.m, o.sparseSelectors[Len(r.models) + 1]))]

\* sparseSelectors.map(sparseSelector => new SparseContextModel(...)), as
\* far as the selector number last; a longer stretch is run in two halves
RECURSIVE NewSparseModels(_, _, _, _)
NewSparseModels(r, o, pooled, last) ==
    IF Len(r.models) >= last THEN r
    ELSE IF Len(r.models) + 1 = last
    THEN SparseModelsAdd(r, NewDirectContextModel(r.w, o, pooled), o)
    ELSE NewSparseModels(NewSparseModels(r, o, pooled, (Len(r.models) + last) \div 2),
                         o, pooled, last)

DefaultModelOf(r, o) ==
    [w |-> r.w,
     m |-> [kind |-> "default", o |-> o, models |-> r.models,
            weights |-> Zeros(Len(r.models)), stretchedProbs |-> Zeros(Len(r.models)),
            mixedProb |-> 0, quote |-> 0, quotesSeen |-> {}]]

\* new DefaultModel(options)
NewDefaultModel(w, o, pooled) ==
    DefaultModelOf(NewSparseModels([w |-> w, models |-> <<>>], o, pooled,
                                   Len(o.sparseSelectors)), o)

\* the context DefaultModel passes down: context + 129 inside a quote
QuoteContext(m, context) == IF m.quote > 0 THEN context + 129 ELSE context

\* LogisticMixModel.predict: the body of the loop over the models, for the
\* loop state r = [w, m, total, i] and the prediction p of model i
MixPredictOne(r, p) ==
    [w |-> p.w,
     m |-> [r.m EXCEPT !.stretchedProbs[r.i] = Stretch(2 * p.p + 1, r.m.o.precision)],
     total |-> r.total + FMul(r.m.weights[r.i], Stretch(2 * p.p + 1, r.m.o.precision)),
     i |-> r.i + 1]

\* the loop over the models as far as model last; a longer stretch is run
\* in two halves
RECURSIVE MixPredict(_, _, _)
MixPredict(r, context, last) ==
    IF r.i > last THEN r
    ELSE IF r.i = last
    THEN MixPredictOne(r, DirectPredict(r.w, r.m.models[r.i].dcm,
                                        r.m.models[r.i].sparseContext + context))
    ELSE MixPredict(MixPredict(r, context, (r.i + last) \div 2), context, last)

\* this.mixedProb = squash(total); return this.mixedProb / 2
MixPredictReturn(r) ==
    [ms |-> [w |-> r.w, m |-> [r.m EXCEPT !.mixedProb = Squash(r.total, r.m.o.precision)]],
     p  |-> Squash(r.total, r.m.o.precision) \div 2]

\* DefaultModel.predict(context)
DefaultPredict(w, m, context) ==
    MixPredictReturn(MixPredict([w |-> w, m |-> m, total |-> 0, i |-> 1],
                            QuoteContext(m, context), Len(m.models)))

\* (actualBit - this.mixedProb / (2 << precision)) * FixedOne
MixError(actualBit, mixedProb, precision) ==
    ((actualBit * (2 ^ (precision + 1)) - mixedProb) * FixedOne) \div (2 ^ (precision + 1))

\* LogisticMixModel.update: the body of the loop over the models, for the
\* loop state r = [w, m, i] and the updated model u of index i
MixUpdateOne(r, u, actualBit) ==
    [w |-> u.w,
     m |-> [r.m EXCEPT !.models[r.i].dcm = u.m,
                       !.weights[r.i] = @ + FMul(TruncDiv(r.m.stretchedProbs[r.i],
                                                          r.m.o.recipLearningRate),
                                                 MixError(actualBit, r.m.mixedProb,
                                                          r.m.o.precision))],
     i |-> r.i + 1]

\* the loop over the models as far as model last; a longer stretch is run
\* in two halves
RECURSIVE MixUpdate(_, _, _, _)
MixUpdate(r, actualBit, context, last) ==
    IF r.i > last THEN r
    ELSE IF r.i = last
    THEN MixUpdateOne(r, DirectUpdate(r.w, r.m.models[r.i].dcm, actualBit,
                                      r.m.models[r.i].sparseContext + context),
                      actualBit)
    ELSE MixUpdate(MixUpdate(r, actualBit, context, (r.i + last) \div 2),
                   actualBit, context, last)

\* the model state a loop over the models has left
MixDone(r) == [w |-> r.w, m |-> r.m]

\* DefaultModel.update(actualBit, context)
DefaultUpdate(w, m, actualBit, context) ==
    MixDone(MixUpdate([w |-> w, m |-> m, i |-> 1], actualBit, QuoteContext(m, context),
                      Len(m.models)))

\* a quote closed by any of the three quote bytes
NextQuoteClosedByAny(quote, currentByte) ==
    IF quote # 0 /\ currentByte \in {34, 39, 96} THEN 0
    ELSE IF quote = 0 /\ currentByte \in {34, 39, 96} THEN currentByte
    ELSE quote

\* the quote in force after currentByte
NextQuote(quote, currentByte) ==
    IF quote # 0 /\ quote = currentByte THEN 0
    ELSE IF quote = 0 /\ currentByte \in {34, 39, 96} THEN currentByte
    ELSE quote

\* DefaultModel.flushByte(currentByte, inBits)
DefaultFlushByte(m, currentByte) ==
    [m EXCEPT !.models = [i \in 1 .. Len(@) |-> SparseFlushByte(@[i], currentByte)],
              !.quote = IF m.o.modelQuotes THEN NextQuote(@, currentByte) ELSE @,
              !.quotesSeen = IF m.o.modelQuotes /\ m.quote = 0 /\ currentByte \in {34, 39, 96}
                             THEN @ \cup {currentByte} ELSE @]

\* LogisticMixModel.release: the body of the loop over the models, for the
\* loop state r = [w, m, i] and the released model u of index i
MixReleaseOne(r, u) ==
    [w |-> u.w, m |-> [r.m EXCEPT !.models[r.i].dcm = u.m], i |-> r.i + 1]

\* the loop over the models as far as model last; a longer stretch is run
\* in two halves
RECURSIVE MixRelease(_, _)
MixRelease(r, last) ==
    IF r.i > last THEN r
    ELSE IF r.i = last THEN MixReleaseOne(r, DirectRelease(r.w, r.m.models[r.i].dcm))
    ELSE MixRelease(MixRelease(r, (r.i + last) \div 2), last)

(***************************************************************************)
(* compressWithModel and decompressWithModel.  A model state ms is the     *)
(* pair [w, m] of the buffers and the model object.  options.sentinel is   *)
(* inputEndsWithByte, -1 when it is undefined.                             *)
(***************************************************************************)
\* the model state and the prediction after a predict call that returned r
Predicted(r, m) == [ms |-> [w |-> r.w, m |-> m], p |-> r.p]

\* The SimpleModel of the tests with the checks of CheckedSimpleModelWithRelease
\* replaced by a record of the calls made on it.
NewCheckedModel(w, o) ==
    [w |-> w, m |-> [kind |-> "checked", o |-> o, ones |-> 1, zeroes |-> 1, calls |-> <<>>]]

\* (this.ones / (this.ones + this.zeroes)) * (1 << this.precision) | 0
SimplePredict(m) == (m.ones * (2 ^ m.o.precision)) \div (m.ones + m.zeroes)

CheckedPredict(ms) ==
    [ms |-> [ms EXCEPT !.m.calls = Append(@, <<"predict">>)], p |-> SimplePredict(ms.m)]

CheckedUpdate(ms, actualBit) ==
    [ms EXCEPT !.m.calls = Append(@, <<"update", actualBit>>),
               !.m.ones = IF actualBit # 0 THEN @ + 1 ELSE @,
               !.m.zeroes = IF actualBit # 0 THEN @ ELSE @ + 1]

CheckedFlushByte(ms, currentByte, inBits) ==
    [ms EXCEPT !.m.calls = Append(@, <<"flushByte", currentByte, inBits>>)]

CheckedRelease(ms) == [ms EXCEPT !.m.calls = Append(@, <<"release">>)]

ModelPredict(ms) ==
    IF ms.m.kind = "default" THEN DefaultPredict(ms.w, ms.m, 0)
    ELSE IF ms.m.kind = "checked" THEN CheckedPredict(ms)
    ELSE Predicted(DirectPredict(ms.w, ms.m, 0), ms.m)

ModelUpdate(ms, bit) ==
    IF ms.m.kind = "default" THEN DefaultUpdate(ms.w, ms.m, bit, 0)
    ELSE IF ms.m.kind = "checked" THEN CheckedUpdate(ms, bit)
    ELSE DirectUpdate(ms.w, ms.m, bit, 0)

ModelFlushByte(ms, code, inBits) ==
    IF ms.m.kind = "default" THEN [ms EXCEPT !.m = DefaultFlushByte(@, code)]
    ELSE IF ms.m.kind = "checked" THEN CheckedFlushByte(ms, code, inBits)
    ELSE [ms EXCEPT !.m = DirectFlushByte(@)]

ModelRelease(ms) ==
    IF ms.m.kind = "default"
    THEN MixDone(MixRelease([w |-> ms.w, m |-> ms.m, i |-> 1], Len(ms.m.models)))
    ELSE IF ms.m.kind = "checked" THEN CheckedRelease(ms)
    ELSE DirectRelease(ms.w, ms.m)

\* mutant of CodeBit: the lowest bit first
CodeBitLowFirst(code, i) == code % 2

\* (code >> i) & 1
CodeBit(code, i) == (code \div (2 ^ i)) % 2

\* the inner loop over a preset byte: predict() then update() for each bit,
\* for the loop state p = [ms, i]
RECURSIVE PresetBits(_, _)
PresetBits(p, code) ==
    IF p.i < 0 THEN p.ms
    ELSE PresetBits([ms |-> ModelUpdate(ModelPredict(p.ms).ms, CodeBit(code, p.i)),
                     i  |-> p.i - 1],
                    code)

\* the loop over the preset, for the loop state p = [ms, preset]
RECURSIVE PresetBytes(_, _)
PresetBytes(p, inBits) ==
    IF p.preset = <<>> THEN p.ms
    ELSE PresetBytes([ms |-> ModelFlushByte(PresetBits([ms |-> p.ms, i |-> inBits - 1],
                                                       Head(p.preset)),
                                            Head(p.preset), inBits),
                      preset |-> Tail(p.preset)],
                     inBits)

RunPreset(ms, preset, inBits) == PresetBytes([ms |-> ms, preset |-> preset], inBits)

\* encoder.writeBit(bit, prob); model.update(bit), for the prediction pr
WriteAndUpdate(pr, e, code, i) ==
    IF WriteBitError(e, CodeBit(code, i), pr.p) # "none"
    THEN [ms |-> pr.ms, e |-> [e EXCEPT !.err = WriteBitError(e, CodeBit(code, i), pr.p)]]
    ELSE [ms |-> ModelUpdate(pr.ms, CodeBit(code, i)),
          e  |-> [e EXCEPT !.input = Append(@, [bit |-> CodeBit(code, i),
                                                predictedFreq |-> pr.p])]]

\* the inner loop over an input byte: predict, writeBit, update, for the
\* loop state c = [ms, e]; a writeBit that throws ends it
RECURSIVE CompressBits(_, _, _)
CompressBits(c, code, i) ==
    IF i < 0 \/ c.e.err # "none" THEN c
    ELSE CompressBits(WriteAndUpdate(ModelPredict(c.ms), c.e, code, i), code, i - 1)

\* model.flushByte and the rest of the input, after the bits of its first byte
RECURSIVE CompressBytes(_, _, _, _)
FlushAndGoOn(r, input, inBits) ==
    IF r.e.err # "none" THEN r
    ELSE CompressBytes(ModelFlushByte(r.ms, Head(input), inBits), r.e, Tail(input), inBits)

\* the loop over the input
CompressBytes(ms, e, input, inBits) ==
    IF input = <<>> THEN [ms |-> ms, e |-> e]
    ELSE FlushAndGoOn(CompressBits([ms |-> ms, e |-> e], Head(input), inBits - 1),
                      input, inBits)

\* the loop of AnsEncoder.finish() as far as n items left, or as far as it
\* gets; a longer stretch is run in two halves
RECURSIVE FinishLoop(_, _)
FinishLoop(e, n) ==
    IF e.pc # "encoding" \/ Len(e.pending) <= n THEN e
    ELSE IF Len(e.pending) = n + 1 THEN EncodeOne(e, Head(e.pending))
    ELSE FinishLoop(FinishLoop(e, (Len(e.pending) + n) \div 2), n)

\* buf.reverse() and the return, once the loop has come to its end
FinishLoopEnd(e) ==
    IF e.pc # "encoding" THEN e ELSE [e EXCEPT !.buf = Reverse(@), !.pc = "returned"]

\* AnsEncoder.finish() run to its end
finish(e) ==
    FinishLoopEnd(FinishLoop([e EXCEPT !.finished = TRUE, !.state = RenormLimit(e.outBits),
                                       !.buf = <<>>, !.pending = Reverse(e.input),
                                       !.pc = "encoding"], 0))

\* mutant of SentinelError: the scan for an earlier sentinel left out
SentinelErrorNoScan(input, sentinel) ==
    IF sentinel = -1 THEN "none"
    ELSE IF Len(input) = 0 THEN "inputEndsWithByte given but input is empty"
    ELSE IF input[Len(input)] # sentinel THEN "input does not agree with inputEndsWithByte"
    ELSE "none"

\* the validation at the head of compressWithModel
SentinelError(input, sentinel) ==
    IF sentinel = -1 THEN "none"
    ELSE IF Len(input) = 0 THEN "inputEndsWithByte given but input is empty"
    ELSE IF input[Len(input)] # sentinel THEN "input does not agree with inputEndsWithByte"
    ELSE IF \E offset \in 1 .. Len(input) - 1 : input[offset] = sentinel
         THEN "input contains multiple inputEndsWithByte"
    ELSE "none"

Thrown(ms, msg) == [ms |-> ms, thrown |-> msg, state |-> 0, buf |-> <<>>, inputLength |-> 0]

\* return { state, buf, inputLength, ... } for the encoder e that finish() left
CompressReturn(ms, e, input, o) ==
    IF e.pc # "returned" THEN Thrown(ms, e.pc)
    ELSE [ms |-> ms, thrown |-> "none", state |-> e.state, buf |-> e.buf,
          inputLength |-> IF o.sentinel = -1 THEN Len(input) ELSE -1]

\* model.release(); encoder.finish(), once the input loop has left r
ReleaseAndFinish(r, input, o) ==
    IF r.e.err # "none" THEN Thrown(r.ms, r.e.err)
    ELSE CompressReturn(ModelRelease(r.ms), finish(r.e), input, o)

\* compressWithModel(input, model, options)
compressWithModel(ms, input, o) ==
    IF SentinelError(input, o.sentinel) # "none"
    THEN Thrown(ms, SentinelError(input, o.sentinel))
    ELSE ReleaseAndFinish(CompressBytes(RunPreset(ms, o.preset, o.inBits),
                                        NewEncoder(o.outBits, o.precision), input, o.inBits),
                          input, o)

\* decoder.readBit(prob); model.update(actualBit), for the prediction pr
ReadAndUpdate(pr, d1, current) ==
    IF d1.pc = "thrown" THEN [ms |-> pr.ms, d |-> d1, current |-> current]
    ELSE [ms |-> ModelUpdate(pr.ms, d1.bit), d |-> d1, current |-> 2 * current + d1.bit]

PredictAndRead(pr, d, current) == ReadAndUpdate(pr, ReadBit(d, pr.p), current)

\* the inner loop over the bits of one byte being reconstructed, for the
\* loop state b = [ms, d, current]; a readBit that throws ends it
RECURSIVE DecompressBits(_, _)
DecompressBits(b, i) ==
    IF i < 0 \/ b.d.pc = "thrown" THEN b
    ELSE DecompressBits(PredictAndRead(ModelPredict(b.ms), b.d, b.current), i - 1)

\* mutant of UntilSentinelNext: the loop also stops after inputLength bytes
RECURSIVE UntilSentinel(_, _, _, _, _)
UntilSentinelOrLengthNext(r, out, o, inputLength) ==
    IF r.d.pc = "thrown" THEN [ms |-> r.ms, thrown |-> TRUE, bytes |-> out]
    ELSE IF r.current = o.sentinel \/ Len(out) + 1 >= inputLength
         THEN [ms |-> ModelFlushByte(r.ms, r.current, o.inBits), thrown |-> FALSE,
               bytes |-> Append(out, r.current)]
    ELSE UntilSentinel(ModelFlushByte(r.ms, r.current, o.inBits), r.d, Append(out, r.current),
                       o, inputLength)

\* the end of one round of the do-while loop: flushByte, push, and the test
\* current !== inputEndsWithByte
UntilSentinelNext(r, out, o, inputLength) ==
    IF r.d.pc = "thrown" THEN [ms |-> r.ms, thrown |-> TRUE, bytes |-> out]
    ELSE IF r.current = o.sentinel
         THEN [ms |-> ModelFlushByte(r.ms, r.current, o.inBits), thrown |-> FALSE,
               bytes |-> Append(out, r.current)]
    ELSE UntilSentinel(ModelFlushByte(r.ms, r.current, o.inBits), r.d, Append(out, r.current),
                       o, inputLength)

\* do { ... } while (current !== inputEndsWithByte)
UntilSentinel(ms, d, out, o, inputLength) ==
    UntilSentinelNext(DecompressBits([ms |-> ms, d |-> d, current |-> 0], o.inBits - 1), out, o, inputLength)

\* the end of one round of the for loop: flushByte and push
RECURSIVE UntilLength(_, _, _, _, _)
UntilLengthNext(r, out, o, inputLength) ==
    IF r.d.pc = "thrown" THEN [ms |-> r.ms, thrown |-> TRUE, bytes |-> out]
    ELSE UntilLength(ModelFlushByte(r.ms, r.current, o.inBits), r.d, Append(out, r.current),
                     o, inputLength)

\* for (offset = 0; offset < inputLength; ++offset) { ... }
UntilLength(ms, d, out, o, inputLength) ==
    IF Len(out) >= inputLength THEN [ms |-> ms, thrown |-> FALSE, bytes |-> out]
    ELSE UntilLengthNext(DecompressBits([ms |-> ms, d |-> d, current |-> 0], o.inBits - 1), out, o, inputLength)

\* if (model.release) model.release(); return reconstructed
DecompressReturn(r) == IF r.thrown THEN r ELSE [r EXCEPT !.ms = ModelRelease(@)]

\* mutant of decompressWithModel: the preset is not fed to the model
decompressWithoutPreset(ms, c, o) ==
    DecompressReturn(
        IF o.sentinel # -1
        THEN UntilSentinel(ms, NewDecoder(c.state, c.buf, o.outBits, o.precision),
                           <<>>, o, c.inputLength)
        ELSE UntilLength(ms, NewDecoder(c.state, c.buf, o.outBits, o.precision),
                         <<>>, o, c.inputLength))

\* decompressWithModel({ state, buf, inputLength }, model, options)
decompressWithModel(ms, c, o) ==
    DecompressReturn(
        IF o.sentinel # -1
        THEN UntilSentinel(RunPreset(ms, o.preset, o.inBits),
                           NewDecoder(c.state, c.buf, o.outBits, o.precision),
                           <<>>, o, c.inputLength)
        ELSE UntilLength(RunPreset(ms, o.preset, o.inBits),
                         NewDecoder(c.state, c.buf, o.outBits, o.precision),
                         <<>>, o, c.inputLength))

(***************************************************************************)
(* The driver as a state machine: one ResourcePool shared by an optional   *)
(* earlier compression, a number of models constructed and released        *)
(* unused, then a compression and a decompression.  Every compression is   *)
(* also run with a non-pooled model on buffers of its own.                 *)
(***************************************************************************)
Opt(inBits, outBits, precision, contextBits, modelMaxCount, recip, preset) ==
    [inBits |-> inBits, outBits |-> outBits, precision |-> precision,
     contextBits |-> contextBits, modelMaxCount |-> modelMaxCount,
     modelRecipBaseCount |-> [m |-> recip, e |-> 0], preset |-> preset, sentinel |-> -1]

\* parameter records explored; all have 4-byte prediction tables
DriverOptions ==
    { Opt(2, 2, 3, 2, 2, 2, <<>>),
      Opt(2, -3, 9, 1, 1, 1, <<1, 0>>),
      Opt(1, 8, 16, 1, 63, 20, <<>>) }

\* inputEndsWithByte values tried with a parameter record (-1: not given)
Sentinels(o) == {-1, 0, 2 ^ o.inBits - 1}

RECURSIVE InputsOfLen(_, _)
InputsOfLen(n, inBits) ==
    IF n = 0 THEN { <<>> }
    ELSE { Append(x, b) : x \in InputsOfLen(n - 1, inBits), b \in 0 .. 2 ^ inBits - 1 }

Inputs(inBits) == UNION { InputsOfLen(n, inBits) : n \in 0 .. MaxLen }

\* inputs of the earlier compression
PriorInputs == { <<0, 1>>, <<1, 1, 1>> }

\* numbers of models constructed and released without being used
IdleCounts == {1, 253, 254}

NoResult == [thrown |-> "none", state |-> 0, buf |-> <<>>, inputLength |-> 0]

NoOutput == [thrown |-> FALSE, bytes |-> <<>>]

Result(r) ==
    [thrown |-> r.thrown, state |-> r.state, buf |-> r.buf, inputLength |-> r.inputLength]

Output(r) == [thrown |-> r.thrown, bytes |-> r.bytes]

\* new DirectContextModel(options) as a model state
NewModel(w, o, pooled) == NewDirectContextModel(w, o, pooled)

InitDriver ==
    /\ \E o \in DriverOptions : \E s \in Sentinels(o) :
         /\ drv = [pc |-> "start", o |-> [o EXCEPT !.sentinel = s], used |-> FALSE,
                   idle |-> 0, input |-> <<>>, res |-> NoResult, ref |-> NoResult,
                   sentinel |-> -1, out |-> NoOutput, refOut |-> NoOutput]
         /\ enc = NewEncoder(o.outBits, o.precision)
    /\ dec = NoDecoder
    /\ world = EmptyWorld

\* an earlier compressWithModel call with a pooled model
PriorUse(o, input) ==
    /\ drv.pc = "start"
    /\ ~drv.used
    /\ drv.idle = 0
    /\ world' = compressWithModel(NewModel(world, o, TRUE), input, o).ms.w
    /\ drv' = [drv EXCEPT !.used = TRUE]
    /\ UNCHANGED <<enc, dec>>

\* a pooled model constructed and released unused
IdleModel(w, o) == ModelRelease(NewModel(w, o, TRUE)).w

\* n times IdleModel, one after the other; the run is evaluated in halves,
\* and a half that leaves the pool as it was is not repeated
RECURSIVE IdleModels(_, _, _)
IdleModels(w, o, n) ==
    IF n = 0 THEN w
    ELSE IF n = 1 THEN IdleModel(w, o)
    ELSE LET h == IdleModels(w, o, n \div 2)
         IN  IF h = w THEN (IF n % 2 = 0 THEN w ELSE IdleModel(w, o))
             ELSE IdleModels(h, o, n - (n \div 2))

\* n pooled models constructed and released one after the other
Idle(n) ==
    /\ drv.pc = "start"
    /\ drv.idle = 0
    /\ world' = IdleModels(world, drv.o, n)
    /\ drv' = [drv EXCEPT !.idle = n]
    /\ UNCHANGED <<enc, dec>>

\* compressWithModel(input, new DirectContextModel(options), options), with
\* and without options.resourcePool
Compress(input) ==
    /\ drv.pc = "start"
    /\ LET r   == compressWithModel(NewModel(world, drv.o, TRUE), input, drv.o)
           ref == compressWithModel(NewModel(EmptyWorld, drv.o, FALSE), input, drv.o)
       IN  /\ world' = r.ms.w
           /\ drv' = [drv EXCEPT !.pc = "compressed", !.input = input,
                                 !.res = Result(r), !.ref = Result(ref)]
    /\ UNCHANGED <<enc, dec>>

\* decompressWithModel(compressed, new DirectContextModel(options), options)
\* with the options of the compression or with inputEndsWithByte added
Decompress(sentinel) ==
    /\ drv.pc = "compressed"
    /\ drv.res.thrown = "none"
    /\ sentinel = drv.o.sentinel \/ drv.o.sentinel = -1
    /\ LET o   == [drv.o EXCEPT !.sentinel = sentinel]
           r   == decompressWithModel(NewModel(world, o, TRUE), drv.res, o)
           ref == decompressWithModel(NewModel(EmptyWorld, o, FALSE), drv.ref, o)
       IN  /\ world' = r.ms.w
           /\ drv' = [drv EXCEPT !.pc = "decompressed", !.sentinel = sentinel,
                                 !.out = Output(r), !.refOut = Output(ref)]
    /\ UNCHANGED <<enc, dec>>

NextDriver ==
    \/ \E o \in DriverOptions : \E input \in PriorInputs : PriorUse(o, input)
    \/ \E n \in IdleCounts : Idle(n)
    \/ \E input \in Inputs(drv.o.inBits) : Compress(input)
    \/ \E s \in Sentinels(drv.o) : Decompress(s)

SpecDriver == InitDriver /\ [][NextDriver]_vars

(***************************************************************************)
(* Properties of the driver.                                               *)
(***************************************************************************)
\* the constraint on inputs in sentinel mode: non-empty, the sentinel is the
\* last byte and occurs nowhere else
ValidSentinelInput(input, sentinel) ==
    /\ Len(input) > 0
    /\ input[Len(input)] = sentinel
    /\ \A i \in 1 .. Len(input) - 1 : input[i] # sentinel

Compressed == drv.pc \in {"compressed", "decompressed"}

\* C8: when inputEndsWithByte is given, compressWithModel throws (one of its
\* three validation errors, for the pooled and the non-pooled model alike)
\* unless the input is non-empty, ends with the sentinel and holds it nowhere
\* else; an input that meets the three conditions is compressed.
C8_SentinelValidated ==
    (Compressed /\ drv.o.sentinel # -1) =>
        /\ ~ValidSentinelInput(drv.input, drv.o.sentinel) =>
              /\ drv.res.thrown \in { "inputEndsWithByte given but input is empty",
                                      "input does not agree with inputEndsWithByte",
                                      "input contains multiple inputEndsWithByte" }
              /\ drv.ref.thrown = drv.res.thrown
        /\ ValidSentinelInput(drv.input, drv.o.sentinel) =>
              drv.res.thrown = "none" /\ drv.ref.thrown = "none"

\* a three-byte input that ends with the sentinel and also holds it earlier
\* was rejected
C8_Witness ==
    /\ Compressed
    /\ drv.o.sentinel # -1
    /\ Len(drv.input) = 3
    /\ drv.input[3] = drv.o.sentinel
    /\ drv.input[1] = drv.o.sentinel
    /\ drv.res.thrown = "input contains multiple inputEndsWithByte"

\* C1: for every parameter record and every input meeting its constraints,
\* decompressWithModel applied to the result of compressWithModel, each with a
\* freshly constructed model of the same class and the same parameters (and
\* preset), returns exactly the input; pooled and non-pooled models alike.
C1_RoundTrip ==
    (drv.pc = "decompressed" /\ drv.sentinel = drv.o.sentinel) =>
        /\ ~drv.out.thrown /\ drv.out.bytes = drv.input
        /\ ~drv.refOut.thrown /\ drv.refOut.bytes = drv.input

\* a three-byte sentinel-mode input went through both calls on a pool that
\* an earlier compression had used
C1_Witness ==
    /\ drv.pc = "decompressed"
    /\ drv.used
    /\ drv.o.sentinel # -1
    /\ drv.sentinel = drv.o.sentinel
    /\ Len(drv.input) = 3
    /\ Len(drv.res.buf) > 0
    /\ drv.out.bytes = drv.input

\* a stream compressed without sentinel mode was decompressed in sentinel mode
CrossDecoded ==
    drv.pc = "decompressed" /\ drv.o.sentinel = -1 /\ drv.sentinel # -1

\* C10 as stated: decompressing in sentinel mode a stream that was compressed
\* without sentinel mode from an input whose last byte is not the sentinel
\* (the empty input included) always throws.
C10_CrossDecodeThrows ==
    (CrossDecoded /\ (drv.input = <<>> \/ drv.input[Len(drv.input)] # drv.sentinel)) =>
        drv.out.thrown /\ drv.refOut.thrown

\* C10 amended: decompressing in sentinel mode a stream that was compressed
\* without sentinel mode from an input that holds the sentinel nowhere (the
\* empty input included) always throws; when the sentinel occurs before the
\* last byte the call returns the input up to its first sentinel instead.
C10_CrossDecodeThrowsIfAbsent ==
    CrossDecoded =>
        LET at == { i \in 1 .. Len(drv.input) : drv.input[i] = drv.sentinel }
        IN  IF at = {} THEN drv.out.thrown /\ drv.refOut.thrown
            ELSE LET first == CHOOSE i \in at : \A j \in at : i <= j
                 IN  /\ ~drv.out.thrown
                     /\ drv.out.bytes = SubSeq(drv.input, 1, first)
                     /\ drv.refOut = drv.out

\* a three-byte input without the sentinel, compressed into a non-empty
\* buffer, made the sentinel-mode decompression throw
C10_Witness ==
    /\ CrossDecoded
    /\ Len(drv.input) = 3
    /\ \A i \in 1 .. 3 : drv.input[i] # drv.sentinel
    /\ Len(drv.res.buf) > 0
    /\ drv.out.thrown

Recip2Pow53 == [m |-> 1, e |-> 53]

\* <<parameters, pooled>> pairs explored; the last two have a
\* modelRecipBaseCount of 2^53
DcmConfigs ==
    { <<Opt(2, 8, 3, 1, 2, 2, <<>>), TRUE>>,
      <<Opt(2, 8, 3, 1, 2, 2, <<>>), FALSE>>,
      <<Opt(2, 8, 4, 1, 5, 20, <<>>), TRUE>>,
      <<Opt(1, 8, 9, 0, 1, 1, <<>>), FALSE>>,
      <<Opt(1, 8, 8, 0, 3, 20, <<>>), FALSE>>,
      <<Opt(1, 8, 12, 0, 2, 20, <<>>), FALSE>>,
      <<[Opt(2, 8, 3, 1, 2, 1, <<>>) EXCEPT !.modelRecipBaseCount = Recip2Pow53], TRUE>>,
      <<[Opt(1, 8, 8, 0, 3, 1, <<>>) EXCEPT !.modelRecipBaseCount = Recip2Pow53], FALSE>> }

InitDcm ==
    /\ \E c \in DcmConfigs :
         LET n == NewDirectContextModel(EmptyWorld, c[1], c[2])
         IN  /\ world = n.w
             /\ drv = [pc |-> "ready", m |-> n.m, context |-> 0]
    /\ enc = NewEncoder(8, 1)
    /\ dec = NoDecoder

\* model.predict(context)
DcmPredict(context) ==
    /\ drv.pc = "ready"
    /\ drv.m.bitContext < 2 ^ drv.m.o.inBits
    /\ world' = DirectPredict(world, drv.m, context).w
    /\ drv' = [drv EXCEPT !.pc = "predicted", !.context = context]
    /\ UNCHANGED <<enc, dec>>

\* model.update(actualBit, context), after the predict call for that context
DcmUpdate(actualBit) ==
    /\ drv.pc = "predicted"
    /\ LET r == DirectUpdate(world, drv.m, actualBit, drv.context)
       IN  /\ world' = r.w
           /\ drv' = [drv EXCEPT !.pc = "ready", !.m = r.m]
    /\ UNCHANGED <<enc, dec>>

\* model.flushByte() once the bits of a byte have gone through
DcmFlushByte ==
    /\ drv.pc = "ready"
    /\ drv.m.bitContext >= 2 ^ drv.m.o.inBits
    /\ drv' = [drv EXCEPT !.m = DirectFlushByte(@)]
    /\ UNCHANGED <<enc, dec, world>>

\* model.release(), then a new pooled model with the same parameters
DcmRenew ==
    /\ drv.pc = "ready"
    /\ drv.m.pooled
    /\ drv.m.bitContext = 1
    /\ drv.m.mark < MaxMark
    /\ LET n == NewDirectContextModel(DirectRelease(world, drv.m).w, drv.m.o, TRUE)
       IN  /\ world' = n.w
           /\ drv' = [drv EXCEPT !.m = n.m]
    /\ UNCHANGED <<enc, dec>>

NextDcm ==
    \/ \E context \in {0, 1} : DcmPredict(context)
    \/ \E actualBit \in {0, 1} : DcmUpdate(actualBit)
    \/ DcmFlushByte
    \/ DcmRenew

SpecDcm == InitDcm /\ [][NextDcm]_vars

\* the slots of the table that the model has initialized: all of them without
\* a pool, those confirmed with the model's mark with one
VisibleSlots(w, m) ==
    { ctx \in 0 .. 2 ^ m.o.contextBits - 1 :
        m.confirmations = 0 \/ w.heap[m.confirmations][ctx + 1] = m.mark }

Min(a, b) == IF a < b THEN a ELSE b

\* prediction and count of every visible slot are in range
StoredInRange(w, m) ==
    \A ctx \in VisibleSlots(w, m) :
        /\ Load(w.heap[m.predictions], PredWidth(m.o), ctx) \in 0 .. 2 ^ m.o.precision - 1
        /\ Load(w.heap[m.counts], CountWidth(m.o), ctx) \in 0 .. m.o.modelMaxCount

\* the exact value the next update would add up for a visible slot, for either
\* bit, is in range before the typed array reduces it to its element width
NextInRange(w, m) ==
    \A ctx \in VisibleSlots(w, m) : \A bit \in {0, 1} :
        LET P == Load(w.heap[m.predictions], PredWidth(m.o), ctx)
            c == Load(w.heap[m.counts], CountWidth(m.o), ctx)
        IN  NextPrediction(m.o, P, Min(c + 1, m.o.modelMaxCount), bit)
                \in 0 .. 2 ^ m.o.precision - 1

getContextItemShift(o) ==
    LET a == IF o.precision <= 8 THEN 0 ELSE IF o.precision <= 16 THEN 1 ELSE 2
        b == IF o.modelMaxCount < 128 THEN 0 ELSE IF o.modelMaxCount < 32768 THEN 1 ELSE 2
    IN  IF a > b THEN a ELSE b

M_PREDICTIONS == 1024

M_WEIGHTS == 1280

M_CONTEXTS == 1792

\* the cell of the double at base + (selIdx << 3)
ScratchCell(base, selIdx) == (base + selIdx * 8 - M_PREDICTIONS) \div 8

ScratchCells == 0 .. ((M_CONTEXTS - M_PREDICTIONS) \div 8) - 1

NoBytes == [a \in {} |-> 0]

MemLoad8(mem, a) == IF a \in DOMAIN mem THEN mem[a] ELSE 0

MemStore8(mem, a, v) ==
    IF v % 256 = 0 THEN [x \in DOMAIN mem \ {a} |-> mem[x]]
    ELSE [x \in DOMAIN mem \cup {a} |-> IF x = a THEN v % 256 ELSE mem[x]]

\* a little-endian load of width bytes
MemLoad(mem, a, width) ==
    (IF width >= 1 THEN MemLoad8(mem, a) ELSE 0)
    + (IF width >= 2 THEN 256 * MemLoad8(mem, a + 1) ELSE 0)
    + (IF width >= 3 THEN 65536 * MemLoad8(mem, a + 2) ELSE 0)
    + (IF width >= 4 THEN 16777216 * MemLoad8(mem, a + 3) ELSE 0)

\* a little-endian store of width bytes
MemStore(mem, a, width, v) ==
    [x \in (DOMAIN mem \ (a .. a + width - 1))
            \cup {a + k : k \in {j \in 0 .. width - 1 : (v \div 256 ^ j) % 256 # 0}} |->
        IF x \in a .. a + width - 1 THEN (v \div 256 ^ (x - a)) % 256 ELSE mem[x]]

\* new Uint8Array(memory.buffer).fill(0, from, to)
MemFill0(mem, from, to) == [x \in { y \in DOMAIN mem : y < from \/ y >= to } |-> mem[x]]

\* new Uint8Array(memory.buffer, a).set(bytes)
RECURSIVE MemSet(_, _, _)
MemSet(mem, a, bytes) ==
    IF bytes = <<>> THEN mem ELSE MemSet(MemStore8(mem, a, Head(bytes)), a + 1, Tail(bytes))

\* the j < 15 with sel >> j & 1
SelectorBits(sel) == { j \in 0 .. 14 : (sel \div (2 ^ j)) % 2 = 1 }

\* the nibbles of the packed selector, lowest first: index j + 1 for each set
\* bit j, the highest bit in the lowest nibble
SelectorIndices(sel) ==
    [k \in 1 .. Cardinality(SelectorBits(sel)) |->
        1 + CHOOSE j \in SelectorBits(sel) :
                Cardinality({ above \in SelectorBits(sel) : above > j }) = k - 1]

\* makeDefaultModelRunner(contextItemShift): mark = 0, M_CONTEXTS_END =
\* M_CONTEXTS, an empty memory
NewRunner(contextItemShift) ==
    [contextItemShift |-> contextItemShift, mark |-> 0, contextsEnd |-> M_CONTEXTS,
     memSize |-> 0, mem |-> NoBytes, scratch |-> [c \in ScratchCells |-> 0]]

M_PREGAP(o, shift) ==
    M_CONTEXTS + (Len(o.sparseSelectors) * 3) * (2 ^ (o.contextBits + shift))

M_INPUT(o, shift) == M_PREGAP(o, shift) + 32

\* M_INPUT + ((input.length + 3) & ~3)
M_OUTPUT(o, shift, len) == M_INPUT(o, shift) + ((len + 3) \div 4) * 4

M_END(o, shift, len) == M_OUTPUT(o, shift, len) + len * o.inBits * 4

\* memory.grow((M_END - byteLength + 65535) >> 16) if M_END > byteLength
Grown(size, end) ==
    IF end > size THEN size + ((end - size + 65535) \div 65536) * 65536 ELSE size

\* ++mark === maxMark, for maxMark = [0x100, 0x10000, 0x100000000][shift];
\* a mark never comes near 2^32 here
MarkWraps(mark, shift) == shift < 2 /\ mark + 1 = 2 ^ (8 * (shift + 1))

\* the runner that never clears the dirty region
RunnerEnterDirty(rn, o, input) ==
    LET shift    == rn.contextItemShift
        pregap   == M_PREGAP(o, shift)
    IN  [rn EXCEPT !.mark = IF MarkWraps(rn.mark, shift) THEN 1 ELSE @ + 1,
                   !.memSize = Grown(@, M_END(o, shift, Len(input))),
                   !.contextsEnd = pregap,
                   !.scratch = IF MarkWraps(rn.mark, shift) THEN [c \in ScratchCells |-> 0]
                               ELSE @,
                   !.mem = MemSet(IF MarkWraps(rn.mark, shift) THEN NoBytes ELSE rn.mem,
                                  M_INPUT(o, shift), input)]

\* the runner up to the call of run: the memory grown, the mark advanced,
\* the memory or its dirty region cleared, the input copied in
RunnerEnter(rn, o, input) ==
    LET shift    == rn.contextItemShift
        pregap   == M_PREGAP(o, shift)
        dirtyEnd == Min(rn.memSize, pregap)
        cleared  == IF MarkWraps(rn.mark, shift) THEN NoBytes
                    ELSE IF rn.contextsEnd < dirtyEnd
                    THEN MemFill0(rn.mem, rn.contextsEnd, dirtyEnd)
                    ELSE rn.mem
    IN  [rn EXCEPT !.mark = IF MarkWraps(rn.mark, shift) THEN 1 ELSE @ + 1,
                   !.memSize = Grown(@, M_END(o, shift, Len(input))),
                   !.contextsEnd = pregap,
                   !.scratch = IF MarkWraps(rn.mark, shift) THEN [c \in ScratchCells |-> 0]
                               ELSE @,
                   !.mem = MemSet(cleared, M_INPUT(o, shift), input)]

\* The state of run: r.rn the runner, r.o the options, and the locals
\* inputOff, outputOff (both from M_CONTEXTS), inputLen, quote, quotesSeen,
\* byte, sumProb, quantSumProb, selIdx, and the scratch words partial, hash.
ItemBytes(r) == 2 ^ r.rn.contextItemShift

\* the entry of run: the offsets, M_WEIGHTS[0..63] = 0.0, the pregap zeroed
RunEnter(rn, o, input) ==
    [rn |-> [rn EXCEPT !.scratch =
                           [c \in ScratchCells |->
                               IF c >= ScratchCell(M_WEIGHTS, 0) /\ c < ScratchCell(M_WEIGHTS, 64)
                               THEN 0 ELSE @[c]],
                       !.mem = MemFill0(@, M_PREGAP(o, rn.contextItemShift),
                                        M_INPUT(o, rn.contextItemShift))],
     o |-> o,
     inputOff |-> M_INPUT(o, rn.contextItemShift) - M_CONTEXTS,
     outputOff |-> M_OUTPUT(o, rn.contextItemShift, Len(input)) - M_CONTEXTS,
     inputLen |-> Len(input),
     quote |-> IF o.modelQuotes THEN 0 ELSE -1, quotesSeen |-> {},
     byte |-> 0, sumProb |-> 0, quantSumProb |-> 0,
     selIdx |-> 0, partial |-> [i \in 0 .. 63 |-> 0], hash |-> [i \in 0 .. 63 |-> 0]]

\* the loop over the nibbles of a selector, for the loop state
\* h = [indices, contextHash]
RECURSIVE PartialHash(_, _, _)
PartialHash(mem, inputOff, h) ==
    IF h.indices = <<>> THEN h.contextHash
    ELSE PartialHash(mem, inputOff,
                     [indices |-> Tail(h.indices),
                      contextHash |->
                          Mul997(Add32(h.contextHash,
                                       MemLoad8(mem, M_CONTEXTS + inputOff
                                                     - Head(h.indices))))])

\* where a loop do { ... } while (++selIdx < numSelectors) ends
SelEnd(r) == IF Len(r.o.sparseSelectors) = 0 THEN 1 ELSE Len(r.o.sparseSelectors)

\* the body of the first loop over selIdx: M_CONTEXTPARTIALHASH
RunPartialOne(r) ==
    [r EXCEPT !.partial[r.selIdx] =
                  PartialHash(r.rn.mem, r.inputOff,
                              [indices |-> SelectorIndices(r.o.sparseSelectors[r.selIdx + 1]),
                               contextHash |-> 0]),
              !.selIdx = @ + 1]

\* the first loop over selIdx as far as selIdx = last; a longer stretch is
\* run in two halves
RECURSIVE RunPartial(_, _)
RunPartial(r, last) ==
    IF r.selIdx >= last THEN r
    ELSE IF r.selIdx + 1 = last THEN RunPartialOne(r)
    ELSE RunPartial(RunPartial(r, (r.selIdx + last) \div 2), last)

\* the offset of the context item from M_CONTEXTS
ContextHash(r, bitContext, selIdx) ==
    (((Add32(Add32(r.partial[selIdx], bitContext), IF r.quote # 0 THEN 129 ELSE 0))
        % (2 ^ r.o.contextBits))
     + selIdx * (2 ^ r.o.contextBits)) * 3 * ItemBytes(r)

\* if (M_CONTEXTS[contextHash] !== mark) { ... }
Confirmed(r, mem, a) ==
    IF MemLoad(mem, a, ItemBytes(r)) # r.rn.mark
    THEN MemStore(MemStore(MemStore(mem, a, ItemBytes(r), r.rn.mark),
                           a + ItemBytes(r), ItemBytes(r), 0),
                  a + 2 * ItemBytes(r), ItemBytes(r), Half(r.o))
    ELSE mem

\* sumProb = sumProb - M_WEIGHTS[selIdx << 3] * prob, after the store
SumProbNext(r, selIdx) ==
    [r EXCEPT !.sumProb = @ - FMul(r.rn.scratch[ScratchCell(M_WEIGHTS, selIdx)],
                                   r.rn.scratch[ScratchCell(M_PREDICTIONS, selIdx)])]

\* M_PREDICTIONS[selIdx << 3] = log(prob / ((2 << precision) - prob))
StorePrediction(r, selIdx) ==
    SumProbNext([r EXCEPT !.rn.scratch[ScratchCell(M_PREDICTIONS, selIdx)] =
                              Stretch(2 * MemLoad(r.rn.mem,
                                                  M_CONTEXTS + r.hash[selIdx] + 2 * ItemBytes(r),
                                                  ItemBytes(r)) + 1,
                                      r.o.precision)],
                selIdx)

\* the body of the loop over selIdx that predicts
RunPredictOne(r, bitContext) ==
    [StorePrediction([r EXCEPT !.hash[r.selIdx] = ContextHash(r, bitContext, r.selIdx),
                               !.rn.mem = Confirmed(r, @, M_CONTEXTS
                                              + ContextHash(r, bitContext, r.selIdx))],
                     r.selIdx)
     EXCEPT !.selIdx = @ + 1]

\* the loop over selIdx that predicts, as far as selIdx = last; a longer
\* stretch is run in two halves
RECURSIVE RunPredict(_, _, _)
RunPredict(r, bitContext, last) ==
    IF r.selIdx >= last THEN r
    ELSE IF r.selIdx + 1 = last THEN RunPredictOne(r, bitContext)
    ELSE RunPredict(RunPredict(r, bitContext, (r.selIdx + last) \div 2), bitContext, last)

\* quantSumProb and the store of the prediction at outputOff; selIdx = 0
RunOutput(r) ==
    [r EXCEPT !.quantSumProb = Squash(-r.sumProb, r.o.precision),
              !.rn.mem = MemStore(@, M_CONTEXTS + r.outputOff, 4,
                                  Squash(-r.sumProb, r.o.precision) \div 2),
              !.outputOff = @ + 4,
              !.selIdx = 0]

\* count = M_CONTEXTS[contextHash] + (M_CONTEXTS[contextHash] < modelMaxCount)
CountNext(r, a) ==
    MemLoad(r.rn.mem, a, ItemBytes(r))
    + (IF MemLoad(r.rn.mem, a, ItemBytes(r)) < r.o.modelMaxCount THEN 1 ELSE 0)

\* the update of one context item and of its weight
UpdateItem(r, bit, selIdx, a, count) ==
    [r EXCEPT !.rn.mem =
                  MemStore(MemStore(@, a, ItemBytes(r), count),
                           a + ItemBytes(r), ItemBytes(r),
                           NextPrediction(r.o, MemLoad(r.rn.mem, a + ItemBytes(r), ItemBytes(r)),
                                          count, bit)),
              !.rn.scratch[ScratchCell(M_WEIGHTS, selIdx)] =
                  @ + FMul(TruncDiv(r.rn.scratch[ScratchCell(M_PREDICTIONS, selIdx)],
                                    r.o.recipLearningRate),
                           MixError(bit, r.quantSumProb, r.o.precision))]

\* the body of the loop over selIdx that updates
RunUpdateOne(r, bit) ==
    [UpdateItem(r, bit, r.selIdx,
                M_CONTEXTS + r.hash[r.selIdx] + ItemBytes(r),
                CountNext(r, M_CONTEXTS + r.hash[r.selIdx] + ItemBytes(r)))
     EXCEPT !.selIdx = @ + 1]

\* the loop over selIdx that updates, as far as selIdx = last; a longer
\* stretch is run in two halves
RECURSIVE RunUpdate(_, _, _)
RunUpdate(r, bit, last) ==
    IF r.selIdx >= last THEN r
    ELSE IF r.selIdx + 1 = last THEN RunUpdateOne(r, bit)
    ELSE RunUpdate(RunUpdate(r, bit, (r.selIdx + last) \div 2), bit, last)

\* the loop over the bits of r.byte: bitIdx is the value before its decrement
RECURSIVE RunBits(_, _)
RunBits(r, bitIdx) ==
    IF bitIdx < r.o.inBits /\ bitIdx <= 0 THEN r
    ELSE RunBits(RunUpdate(RunOutput(RunPredict([r EXCEPT !.sumProb = 0, !.selIdx = 0],
                                                (r.byte + 2 ^ r.o.inBits) \div (2 ^ bitIdx),
                                                SelEnd(r))),
                           CodeBit(r.byte, bitIdx - 1), SelEnd(r)),
                 bitIdx - 1)

\* the quote in force after the byte, when quotes are modelled
RunQuote(r) ==
    IF r.quote = -1 THEN r
    ELSE IF r.quote # 0 THEN [r EXCEPT !.quote = IF @ = r.byte THEN 0 ELSE @]
    ELSE IF r.byte \in {34, 39, 96}
         THEN [r EXCEPT !.quote = r.byte, !.quotesSeen = @ \cup {r.byte}]
    ELSE r

\* the loop over the input
RECURSIVE RunBytes(_)
RunByte(r) == RunQuote(RunBits(RunPartial([r EXCEPT !.selIdx = 0], SelEnd(r)), r.o.inBits))

RunNext(r) ==
    IF r.inputLen - 1 > 0
    THEN RunBytes([r EXCEPT !.inputOff = @ + 1, !.inputLen = @ - 1])
    ELSE r

RunBytes(r) ==
    RunNext(RunByte([r EXCEPT !.byte = MemLoad8(r.rn.mem, M_CONTEXTS + r.inputOff)]))

\* run(inBits, input.length, ...)
run(rn, o, input) == RunBytes(RunEnter(rn, o, input))

\* new Uint32Array(memory.buffer, M_OUTPUT, input.length * inBits)
Predictions(mem, a, n) ==
    IF n = 0 THEN <<>> ELSE [k \in 1 .. n |-> MemLoad(mem, a + 4 * (k - 1), 4)]

\* what the runner returns after run has left r, or throws: a Uint32Array
\* cannot start at an offset that is not a multiple of 4
RunnerReturn(r, contextItemShift, o, input) ==
    IF M_OUTPUT(o, contextItemShift, Len(input)) % 4 # 0
    THEN [rn |-> r.rn, thrown |-> "RangeError", predictions |-> <<>>, quotesSeen |-> {}]
    ELSE [rn |-> r.rn, thrown |-> "none",
          predictions |-> Predictions(r.rn.mem,
                                      M_OUTPUT(o, contextItemShift, Len(input)),
                                      Len(input) * o.inBits),
          quotesSeen |-> r.quotesSeen]

NotRun(rn) == [rn |-> rn, quotesSeen |-> {}]

\* the function makeDefaultModelRunner returns, called on (input, options)
runDefaultModel(rn, o, input) ==
    IF Len(input) > 0
    THEN RunnerReturn(run(RunnerEnter(rn, o, input), o, input), rn.contextItemShift, o, input)
    ELSE RunnerReturn(NotRun(RunnerEnter(rn, o, input)), rn.contextItemShift, o, input)

(***************************************************************************)
(* compressWithDefaultModel.  A pool state is [w, runners]: the buffers of *)
(* the ResourcePool and its runner for each contextItemShift.  An option   *)
(* record has pool (a resourcePool is given) and disableWasm, and never    *)
(* calculateByteEntropy; WebAssembly is available.                         *)
(***************************************************************************)
NewPool == [w |-> EmptyWorld, runners |-> [s \in 0 .. 2 |-> NewRunner(s)]]

\* the condition under which the WebAssembly runner is used
WasmEligible(o) ==
    /\ o.pool
    /\ Len(o.preset) = 0
    /\ ~o.disableWasm
    /\ Len(o.sparseSelectors) <= 64
    /\ \A i \in 1 .. Len(o.sparseSelectors) : o.sparseSelectors[i] < 32768

\* encoder.writeBit(bit, predictions[bitOffset++]), for the loop state
\* wr = [e, predictions] of the encoder and the predictions not yet used
WritePredicted(wr, bit) ==
    IF WriteBitError(wr.e, bit, Head(wr.predictions)) # "none"
    THEN [wr EXCEPT !.e.err = WriteBitError(wr.e, bit, Head(wr.predictions))]
    ELSE [e |-> [wr.e EXCEPT !.input = Append(@, [bit |-> bit,
                                                  predictedFreq |-> Head(wr.predictions)])],
          predictions |-> Tail(wr.predictions)]

\* the inner loop over the bits of code; a writeBit that throws ends it
RECURSIVE WriteCodeBits(_, _, _)
WriteCodeBits(wr, code, i) ==
    IF i < 0 \/ wr.e.err # "none" THEN wr
    ELSE WriteCodeBits(WritePredicted(wr, CodeBit(code, i)), code, i - 1)

\* the bits of the input written with the predictions of the runner
RECURSIVE WriteBits(_, _, _)
WriteBits(wr, input, inBits) ==
    IF input = <<>> \/ wr.e.err # "none" THEN wr
    ELSE WriteBits(WriteCodeBits(wr, Head(input), inBits - 1), Tail(input), inBits)

DefaultThrown(pool, msg) ==
    [pool |-> pool, thrown |-> msg, state |-> 0, buf |-> <<>>, inputLength |-> 0,
     quotesSeen |-> {}]

\* return { state, buf, inputLength, bufLengthInBytes, quotesSeen }
WasmReturn(pool, e, input, quotesSeen) ==
    IF e.pc # "returned" THEN DefaultThrown(pool, e.pc)
    ELSE [pool |-> pool, thrown |-> "none", state |-> e.state, buf |-> e.buf,
          inputLength |-> Len(input), quotesSeen |-> quotesSeen]

WasmFinish(pool, e, input, quotesSeen) ==
    IF e.err # "none" THEN DefaultThrown(pool, e.err)
    ELSE WasmReturn(pool, finish(e), input, quotesSeen)

\* the branch that uses the runner, once it has returned rr
WasmBranch(pool, rr, input, o) ==
    IF rr.thrown # "none"
    THEN DefaultThrown([pool EXCEPT !.runners[rr.rn.contextItemShift] = rr.rn], rr.thrown)
    ELSE WasmFinish([pool EXCEPT !.runners[rr.rn.contextItemShift] = rr.rn],
                    WriteBits([e |-> NewEncoder(o.outBits, o.precision),
                               predictions |-> rr.predictions], input, o.inBits).e,
                    input, rr.quotesSeen)

\* the branch that builds a DefaultModel, once compressWithModel has left cr
ModelBranch(pool, cr) ==
    [pool |-> [pool EXCEPT !.w = cr.ms.w], thrown |-> cr.thrown, state |-> cr.state,
     buf |-> cr.buf, inputLength |-> cr.inputLength,
     quotesSeen |-> IF cr.thrown = "none" THEN cr.ms.m.quotesSeen ELSE {}]

\* compressWithDefaultModel(input, options)
compressWithDefaultModel(pool, input, o) ==
    IF WasmEligible(o)
    THEN WasmBranch(pool, runDefaultModel(pool.runners[getContextItemShift(o)], o, input),
                    input, o)
    ELSE ModelBranch(pool, compressWithModel(NewDefaultModel(pool.w, o, o.pool), input, o))

(***************************************************************************)
(* SpecDefault: compressWithDefaultModel called on one ResourcePool, after *)
(* an earlier call with other parameters and a run of calls with the empty *)
(* input, next to the same call with disableWasm and to compressWithModel  *)
(* with a new DefaultModel.                                                *)
(***************************************************************************)
Upto(n) == [i \in 1 .. n |-> i - 1]

DefaultOpt(inBits, contextBits, sparseSelectors, modelQuotes, preset) ==
    Opt(inBits, 8, 3, contextBits, 2, 2, preset)
    @@ [sparseSelectors |-> sparseSelectors, recipLearningRate |-> 1,
        modelQuotes |-> modelQuotes, pool |-> TRUE, disableWasm |-> FALSE]

\* parameter records explored: 33 selectors, two selectors, one selector
\* with a context table of 6 bytes, quotes, a preset
DefaultOptions ==
    { DefaultOpt(1, 2, Upto(33), FALSE, <<>>),
      DefaultOpt(1, 2, <<0, 1>>, FALSE, <<>>),
      DefaultOpt(2, 1, <<0>>, FALSE, <<>>),
      DefaultOpt(8, 2, <<0, 1>>, TRUE, <<>>),
      DefaultOpt(1, 2, <<0, 1>>, FALSE, <<1>>) }

\* the bytes inputs are made of
Alphabet(o) == IF o.inBits = 8 THEN {34, 39, 97} ELSE 0 .. 2 ^ o.inBits - 1

RECURSIVE DefaultInputsOfLen(_, _)
DefaultInputsOfLen(n, o) ==
    IF n = 0 THEN { <<>> }
    ELSE { Append(x, b) : x \in DefaultInputsOfLen(n - 1, o), b \in Alphabet(o) }

DefaultInputs(o) == UNION { DefaultInputsOfLen(n, o) : n \in 0 .. MaxLen }

\* inputEndsWithByte values tried with a parameter record (-1: not given)
DefaultSentinels(o) == {-1} \cup { b \in Alphabet(o) : \A c \in Alphabet(o) : b <= c }

\* the earlier calls on the pool
PriorCalls ==
    { <<DefaultOpt(1, 3, <<0, 1, 2>>, FALSE, <<>>), <<1, 0, 1>>>>,
      <<DefaultOpt(1, 1, <<0, 2>>, FALSE, <<>>), <<1, 1>>>> }

NoDefaultResult ==
    [thrown |-> "none", state |-> 0, buf |-> <<>>, inputLength |-> 0, quotesSeen |-> {}]

DefaultResult(r) ==
    [thrown |-> r.thrown, state |-> r.state, buf |-> r.buf, inputLength |-> r.inputLength,
     quotesSeen |-> r.quotesSeen]

InitDefault ==
    /\ \E o \in DefaultOptions : \E s \in DefaultSentinels(o) : \E d \in BOOLEAN :
         /\ drv = [pc |-> "default", o |-> [o EXCEPT !.sentinel = s, !.disableWasm = d],
                   calls |-> 0, idle |-> 0, pool |-> NewPool, input |-> <<>>,
                   res |-> NoDefaultResult, ref |-> NoDefaultResult, refModel |-> NoResult]
         /\ enc = NewEncoder(o.outBits, o.precision)
    /\ dec = NoDecoder
    /\ world = EmptyWorld

\* an earlier compressWithDefaultModel call on the same pool
PriorCall(c) ==
    /\ drv.pc = "default"
    /\ drv.calls = 0
    /\ drv.idle = 0
    /\ drv' = [drv EXCEPT !.calls = 1,
                          !.pool = compressWithDefaultModel(@, c[2], c[1]).pool]
    /\ UNCHANGED <<enc, dec, world>>

\* n calls of the runner with the empty input
RECURSIVE IdleRunner(_, _, _)
IdleRunner(rn, o, n) ==
    IF n = 0 THEN rn
    ELSE IF n = 1 THEN RunnerEnter(rn, o, <<>>)
    ELSE LET h == IdleRunner(rn, o, n \div 2)
         IN  IF h = rn THEN rn ELSE IdleRunner(h, o, n - (n \div 2))

\* n calls compressWithDefaultModel([], options) that take the runner
IdleCalls(n) ==
    /\ drv.pc = "default"
    /\ drv.idle = 0
    /\ WasmEligible(drv.o)
    /\ drv' = [drv EXCEPT !.idle = n,
                          !.pool.runners[getContextItemShift(drv.o)] =
                              IdleRunner(@, drv.o, n)]
    /\ UNCHANGED <<enc, dec, world>>

\* the call under study and, from the same pool, the two calls it is
\* compared with
CompressDefault(input) ==
    /\ drv.pc = "default"
    /\ LET cm == compressWithModel(NewDefaultModel(drv.pool.w, drv.o, drv.o.pool),
                                   input, drv.o)
           r  == compressWithDefaultModel(drv.pool, input, drv.o)
       IN  drv' = [drv EXCEPT !.pc = "done", !.input = input, !.pool = r.pool,
                              !.res = DefaultResult(r),
                              !.ref = DefaultResult(ModelBranch(drv.pool, cm)),
                              !.refModel = Result(cm)]
    /\ UNCHANGED <<enc, dec, world>>

NextDefault ==
    \/ \E c \in PriorCalls : PriorCall(c)
    \/ \E n \in IdleCounts : IdleCalls(n)
    \/ \E input \in DefaultInputs(drv.o) : CompressDefault(input)

SpecDefault == InitDefault /\ [][NextDefault]_vars

Called == drv.pc = "done"

\* the layout of the runner's memory holds for the options: at most 32
\* selectors, so that M_PREDICTIONS ends where M_WEIGHTS begins, and a context
\* table that is a multiple of 4 bytes
LayoutHolds(o) ==
    /\ Len(o.sparseSelectors) <= 32
    /\ M_PREGAP(o, getContextItemShift(o)) % 4 = 0

\* within that layout and without a sentinel the two paths agree in
\* everything returned
WasmAgreesWithinLayout ==
    Called /\ WasmEligible(drv.o) /\ LayoutHolds(drv.o) /\ drv.o.sentinel = -1 =>
        drv.res = drv.ref

\* C7: whenever the accelerated path is eligible, it returns the same state, buf and
\* quotesSeen as the same call with disableWasm set, for every input, the empty input
\* included, and after earlier calls that used the runner with other parameters.
\* Stated for the calls that give no sentinel.
C7_WasmAgrees ==
    Called /\ WasmEligible(drv.o) /\ drv.o.sentinel = -1 =>
        /\ drv.res.thrown = drv.ref.thrown
        /\ drv.res.state = drv.ref.state
        /\ drv.res.buf = drv.ref.buf
        /\ drv.res.quotesSeen = drv.ref.quotesSeen

\* C9: compressWithDefaultModel has the outcome of compressWithModel with a new
\* DefaultModel, whichever path it takes: the same error thrown for an input that
\* breaks the sentinel rules, and otherwise the same state, buf and inputLength
\* (-1 when a sentinel is given).  Stated for the options whose layout holds
\* when the accelerated path is taken.
C9_SameAsCompressWithModel ==
    Called /\ (WasmEligible(drv.o) => LayoutHolds(drv.o)) =>
        /\ drv.res.thrown = drv.refModel.thrown
        /\ drv.res.state = drv.refModel.state
        /\ drv.res.buf = drv.refModel.buf
        /\ drv.res.inputLength = drv.refModel.inputLength

(***************************************************************************)
(* SpecCalls: compressWithModel, then decompressWithModel, each with a new *)
(* model that records the calls made on it.                                *)
(***************************************************************************)
InitCalls ==
    /\ \E o \in DriverOptions : \E s \in Sentinels(o) :
         /\ drv = [pc |-> "start", o |-> [o EXCEPT !.sentinel = s], input |-> <<>>,
                   res |-> NoResult, out |-> NoOutput, calls |-> <<>>, decCalls |-> <<>>]
         /\ enc = NewEncoder(o.outBits, o.precision)
    /\ dec = NoDecoder
    /\ world = EmptyWorld

CompressCalled(r, input) ==
    [drv EXCEPT !.pc = "compressed", !.input = input, !.res = Result(r),
                !.calls = r.ms.m.calls]

\* compressWithModel(input, new CheckedSimpleModelWithRelease(options), options)
CompressChecked(input) ==
    /\ drv.pc = "start"
    /\ drv' = CompressCalled(compressWithModel(NewCheckedModel(world, drv.o), input, drv.o),
                             input)
    /\ UNCHANGED <<enc, dec, world>>

DecompressCalled(r) ==
    [drv EXCEPT !.pc = "decompressed", !.out = Output(r), !.decCalls = r.ms.m.calls]

\* decompressWithModel(compressed, new CheckedSimpleModelWithRelease(options), options)
DecompressChecked ==
    /\ drv.pc = "compressed"
    /\ drv.res.thrown = "none"
    /\ drv' = DecompressCalled(decompressWithModel(NewCheckedModel(world, drv.o),
                                                   drv.res, drv.o))
    /\ UNCHANGED <<enc, dec, world>>

NextCalls ==
    \/ \E input \in Inputs(drv.o.inBits) : CompressChecked(input)
    \/ DecompressChecked

SpecCalls == InitCalls /\ [][NextCalls]_vars

\* the calls one byte asks for: predict and update for each of its bits from
\* the highest down, then flushByte
RECURSIVE BitCalls(_, _)
BitCalls(byte, i) ==
    IF i < 0 THEN <<>>
    ELSE <<<<"predict">>, <<"update", (byte \div (2 ^ i)) % 2>>>> \o BitCalls(byte, i - 1)

RECURSIVE ByteCalls(_, _)
ByteCalls(bytes, inBits) ==
    IF bytes = <<>> THEN <<>>
    ELSE BitCalls(Head(bytes), inBits - 1) \o <<<<"flushByte", Head(bytes), inBits>>>>
         \o ByteCalls(Tail(bytes), inBits)

\* C12: in every compressWithModel or decompressWithModel call that returns, the
\* calls on the model are, for each preset byte and then each byte of the input,
\* inBits times predict() and update(bit) with the bits from the highest down, then
\* flushByte(byte, inBits), and at the end release() once and nothing after it.
C12_CallOrder ==
    /\ drv.pc \in {"compressed", "decompressed"} /\ drv.res.thrown = "none" =>
           drv.calls = ByteCalls(drv.o.preset \o drv.input, drv.o.inBits) \o <<<<"release">>>>
    /\ drv.pc = "decompressed" /\ ~drv.out.thrown =>
           drv.decCalls = ByteCalls(drv.o.preset \o drv.out.bytes, drv.o.inBits)
                          \o <<<<"release">>>>

\* a three-byte input after a two-byte preset went through both calls, which
\* made 2 * 2 * 5 + 5 + 1 calls on each model
C12_Witness ==
    /\ drv.pc = "decompressed"
    /\ ~drv.out.thrown
    /\ Len(drv.o.preset) = 2
    /\ Len(drv.out.bytes) = 3
    /\ Len(drv.calls) = 26
    /\ Len(drv.decCalls) = 26

(***************************************************************************)
(* SpecPool: models constructed on one ResourcePool and released in any    *)
(* order, any number of times.                                             *)
(***************************************************************************)
\* models constructed in one behaviour
MaxModels == 3

InitPool ==
    /\ drv = [pc |-> "pool", models |-> <<>>]
    /\ world = EmptyWorld
    /\ enc = NewEncoder(8, 3)
    /\ dec = NoDecoder

PoolConstructed(r) ==
    /\ drv' = [drv EXCEPT !.models = Append(@, r.m)]
    /\ world' = r.w

\* new DirectContextModel({ ...options, resourcePool })
PoolConstruct(o) ==
    /\ drv.pc = "pool"
    /\ Len(drv.models) < MaxModels
    /\ PoolConstructed(NewDirectContextModel(world, o, TRUE))
    /\ UNCHANGED <<enc, dec>>

PoolReleased(r, i) ==
    /\ drv' = [drv EXCEPT !.models[i] = r.m]
    /\ world' = r.w

\* models[i].release(), whether or not it was released before
PoolRelease(i) ==
    /\ drv.pc = "pool"
    /\ i \in 1 .. Len(drv.models)
    /\ PoolReleased(DirectRelease(world, drv.models[i]), i)
    /\ UNCHANGED <<enc, dec>>

NextPool ==
    \/ \E o \in DriverOptions : PoolConstruct(o)
    \/ \E i \in 1 .. MaxModels : PoolRelease(i)

SpecPool == InitPool /\ [][NextPool]_vars

\* the buffers a model holds
Held(m) == {m.predictions, m.counts, m.confirmations} \ {0}

\* C13: whatever the order of constructions of pooled models and of release()
\* calls, release() on a released model included, no buffer is held by two
\* unreleased models and no buffer held by an unreleased model is on the free
\* list of the pool.
C13_OneBorrower ==
    drv.pc = "pool" =>
        /\ \A i, j \in 1 .. Len(drv.models) :
               i # j => Held(drv.models[i]) \cap Held(drv.models[j]) = {}
        /\ \A i \in 1 .. Len(drv.models) :
               /\ Cardinality(Held(drv.models[i])) \in {0, 3}
               /\ \A k \in 1 .. Len(world.free) : world.free[k] \notin Held(drv.models[i])

\* the first model was released, twice or more, and two models constructed
\* since hold buffers, one of them a buffer the first model gave back
C13_Witness ==
    /\ drv.pc = "pool"
    /\ Len(drv.models) = 3
    /\ Held(drv.models[1]) = {}
    /\ Held(drv.models[2]) # {}
    /\ Held(drv.models[3]) # {}
    /\ (Held(drv.models[2]) \cup Held(drv.models[3])) \cap {1, 2, 3} # {}
    /\ Len(world.heap) < 9

(***************************************************************************)
(* Packer.optimize (index.mjs 1338-1536).  The packer's input is           *)
(* represented by the size it compresses to under each set of parameters   *)
(* (calculateSize), the only thing the optimizer observes of it.           *)
(***************************************************************************)
\* const EXP = 1; const LINEAR = 0;
EXP == 1
LINEAR == 0

\* largest selector Math.random() * AUTO_SELECTOR_LIMIT | 0 is taken from
MaxSelector == 3

\* optimize levels tried; the one-argument call optimize(progress) is level 0
Levels == {0, 1, 2}

Gap(a, b) == IF a < b THEN b - a ELSE a - b

RECURSIVE Lg(_)
Lg(n) == IF n < 2 THEN 0 ELSE 1 + Lg(n \div 2)

Elements(s) == {s[i] : i \in 1 .. Len(s)}

\* obj[key], -1 for undefined
Get(obj, key) == IF key \in DOMAIN obj THEN obj[key] ELSE -1

\* { ...a, ...b }
Spread(a, b) == b @@ a

\* delete obj[key]
Delete(obj, key) == [k \in DOMAIN obj \ {key} |-> obj[k]]

\* JSON.parse(JSON.stringify(v)) of an object of integers and integer arrays:
\* keys holding undefined are dropped, and no key of v holds undefined
copy(v) == [k \in DOMAIN v |-> v[k]]

\* new Packer(inputs, options): this.options; inp.auto is the dynamicModels
\* the type of the first input gives (DYN_MODEL_QUOTES for 'js', else 0)
NewPacker(options, inp) ==
    [sparseSelectors |-> options.sparseSelectors,
     precision |-> IF Get(options, "precision") > 0 THEN options.precision ELSE 16,
     modelMaxCount |-> IF Get(options, "modelMaxCount") > 0 THEN options.modelMaxCount ELSE 5,
     modelRecipBaseCount |->
         IF Get(options, "modelRecipBaseCount") > 0 THEN options.modelRecipBaseCount ELSE 20,
     recipLearningRate |->
         IF Get(options, "recipLearningRate") > 0 THEN options.recipLearningRate ELSE 500,
     numAbbreviations |->
         IF "numAbbreviations" \in DOMAIN options THEN options.numAbbreviations ELSE 64]
    @@ [dynamicModels |->
           IF "dynamicModels" \in DOMAIN options THEN options.dynamicModels ELSE inp.auto]

\* new Packed(Packer.doPack(..., options)).estimateLength() for the input inp:
\* a base length plus what each parameter is away from the value that suits
\* the input best
estimateLength(inp, options) ==
    inp.base
    + Gap(Lg(options.modelRecipBaseCount), Lg(inp.suits.modelRecipBaseCount))
    + Gap(Lg(options.modelMaxCount), Lg(inp.suits.modelMaxCount))
    + Gap(Lg(options.recipLearningRate), Lg(inp.suits.recipLearningRate))
    + Gap(options.precision, inp.suits.precision)
    + Gap(Min(options.numAbbreviations, inp.maxAbbreviations),
          Min(inp.suits.numAbbreviations, inp.maxAbbreviations)) \div 8
    + (IF options.dynamicModels = inp.suits.dynamicModels THEN 0 ELSE 1)
    + Cardinality(Elements(options.sparseSelectors) \ inp.suits.sparseSelectors)

\* calculateSize(current)
calculateSize(w, current) == estimateLength(w.inp, Spread(w.options, current))

\* x * y as <<q, r>> with x * y = q * 1024 + r and r < 1024, for x, y < 2^17
Wide(x, y) ==
    <<(x \div 1024) * y + ((x % 1024) * y) \div 1024, ((x % 1024) * y) % 1024>>

WideLeq(p, q) == p[1] < q[1] \/ (p[1] = q[1] /\ p[2] <= q[2])

\* the least m of lo .. hi with x * y <= m * (m + 1)
RECURSIVE RoundSqrtIn(_, _, _, _)
RoundSqrtIn(lo, hi, x, y) ==
    IF lo >= hi THEN lo
    ELSE IF WideLeq(Wide(x, y), Wide((lo + hi) \div 2, (lo + hi) \div 2 + 1))
         THEN RoundSqrtIn(lo, (lo + hi) \div 2, x, y)
         ELSE RoundSqrtIn((lo + hi) \div 2 + 1, hi, x, y)

\* Math.round(Math.sqrt(x * y)): the m with (m - 1/2)^2 < x * y < (m + 1/2)^2
RoundSqrt(x, y) == RoundSqrtIn(Min(x, y), IF x < y THEN y ELSE x, x, y)

\* a midpoint rounded down: Math.floor(Math.sqrt(x * y))
midRoundedDown(dist, x, y) ==
    IF dist = EXP
    THEN (IF RoundSqrt(x, y) * RoundSqrt(x, y) > x * y
          THEN RoundSqrt(x, y) - 1 ELSE RoundSqrt(x, y))
    ELSE (x + y) \div 2

\* mid(x, y) of search
mid(dist, x, y) == IF dist = EXP THEN RoundSqrt(x, y) ELSE (x + y) \div 2

\* no search under way
NoSearch ==
    [phase |-> "done", dist |-> LINEAR, manualValues |-> <<>>, i |-> 0,
     lo |-> 0, hi |-> 0, q2 |-> 0, yy |-> <<>>, x |-> 0, cache |-> <<>>]

\* const xx = [lo, mid(lo, q2), q2, mid(q2, hi), hi]
SearchXx(s) ==
    <<s.lo, mid(s.dist, s.lo, s.q2), s.q2, mid(s.dist, s.q2, s.hi), s.hi>>

\* the value the search scores next
SearchPoint(s) ==
    CASE s.phase = "manual" -> s.manualValues[s.i]
      [] s.phase = "five" -> SearchXx(s)[s.i]
      [] OTHER -> s.x

\* let min = 0; for (i = 1; i < 5; ++i) if (yy[min] > yy[i]) min = i;
RECURSIVE SearchMin(_, _, _)
SearchMin(yy, min, i) ==
    IF i > 5 THEN min
    ELSE SearchMin(yy, IF yy[min] > yy[i] THEN i ELSE min, i + 1)

\* while (hi - lo >= 4) ..., then for (let x = lo + 1; x < hi; ++x)
SearchLoop(s) ==
    IF s.hi - s.lo >= 4 THEN [s EXCEPT !.phase = "five", !.i = 1, !.yy = <<>>]
    ELSE IF s.lo + 1 < s.hi THEN [s EXCEPT !.phase = "rest", !.x = s.lo + 1, !.yy = <<>>]
    ELSE [s EXCEPT !.phase = "done", !.yy = <<>>]

\* the new range after the five points of xx scored yy, min (from 1) the least
SearchNarrow(s, xx, min) ==
    IF min = 1 THEN
        SearchLoop([s EXCEPT !.hi = xx[2], !.q2 = mid(s.dist, s.lo, xx[2])])
    ELSE IF min = 5 THEN
        SearchLoop([s EXCEPT !.lo = xx[4], !.q2 = mid(s.dist, xx[4], s.hi)])
    ELSE
        SearchLoop([s EXCEPT !.lo = xx[min - 1], !.q2 = xx[min], !.hi = xx[min + 1]])

\* the search once the point it was at has the score y
SearchGot(s, y) ==
    CASE s.phase = "manual" ->
            IF s.i < Len(s.manualValues) THEN [s EXCEPT !.i = @ + 1]
            ELSE [s EXCEPT !.phase = "done"]
      [] s.phase = "five" ->
            IF s.i < 5 THEN [s EXCEPT !.i = @ + 1, !.yy = Append(@, y)]
            ELSE SearchNarrow(s, SearchXx(s), SearchMin(Append(s.yy, y), 1, 2))
      [] s.phase = "rest" ->
            IF s.x + 1 < s.hi THEN [s EXCEPT !.x = @ + 1]
            ELSE [s EXCEPT !.phase = "done"]
      [] OTHER -> s

\* evaluate(x) answers from the cache: let y = cache.get(x); if (!y) ...
SearchCached(s, x) ==
    /\ s.phase \in {"five", "rest"}
    /\ x \in DOMAIN s.cache
    /\ s.cache[x] # 0

\* the search moved on to the next point that needs a call of score
RECURSIVE SearchSkip(_)
SearchSkip(s) ==
    IF SearchCached(s, SearchPoint(s))
    THEN SearchSkip(SearchGot(s, s.cache[SearchPoint(s)]))
    ELSE s

\* y = await score(x, ...); cache.set(x, y);
SearchScored(s, x, y) ==
    IF s.phase = "manual" THEN SearchGot(s, y)
    ELSE SearchSkip(SearchGot([s EXCEPT !.cache = (x :> y) @@ @], y))

\* search(lo, hi, dist, manualValues, score) up to its first call of score
search(level, lo, hi, dist, manualValues) ==
    IF level <= 1 THEN
        [NoSearch EXCEPT !.phase = IF Len(manualValues) > 0 THEN "manual" ELSE "done",
                         !.manualValues = manualValues, !.i = 1]
    ELSE
        SearchSkip(SearchLoop([NoSearch EXCEPT !.dist = dist, !.lo = lo, !.hi = hi,
                                               !.q2 = mid(dist, lo, hi)]))

\* the passes with the annealing moved behind the numeric searches
PassesAnnealingLast(maxAbbreviations) ==
    <<[pass |-> "modelRecipBaseCount", kind |-> "search", lo |-> 1, hi |-> 1000,
       dist |-> EXP, manualValues |-> <<10, 20, 50, 100>>, delete |-> FALSE],
      [pass |-> "modelMaxCount", kind |-> "search", lo |-> 1, hi |-> 32767,
       dist |-> EXP, manualValues |-> <<4, 5, 6>>, delete |-> TRUE],
      [pass |-> "dynamicModels", kind |-> "each", lo |-> 0, hi |-> 1,
       dist |-> LINEAR, manualValues |-> <<0, 1>>, delete |-> TRUE],
      [pass |-> "numAbbreviations", kind |-> "search", lo |-> 0, hi |-> maxAbbreviations,
       dist |-> LINEAR, manualValues |-> <<0, 16, 32, 64>>, delete |-> TRUE],
      [pass |-> "precision", kind |-> "search", lo |-> 1, hi |-> 21,
       dist |-> LINEAR, manualValues |-> <<12, 14, 16>>, delete |-> TRUE],
      [pass |-> "recipLearningRate", kind |-> "search", lo |-> 1, hi |-> 99999,
       dist |-> EXP, manualValues |-> <<500, 750, 1000, 1250, 1500>>, delete |-> TRUE],
      [pass |-> "sparseSelectors", kind |-> "anneal", lo |-> 0, hi |-> 0,
       dist |-> LINEAR, manualValues |-> <<>>, delete |-> FALSE]>>

\* the passes after 'initial', in the order optimize runs them
Passes(maxAbbreviations) ==
    <<[pass |-> "modelRecipBaseCount", kind |-> "search", lo |-> 1, hi |-> 1000,
       dist |-> EXP, manualValues |-> <<10, 20, 50, 100>>, delete |-> FALSE],
      [pass |-> "modelMaxCount", kind |-> "search", lo |-> 1, hi |-> 32767,
       dist |-> EXP, manualValues |-> <<4, 5, 6>>, delete |-> TRUE],
      [pass |-> "dynamicModels", kind |-> "each", lo |-> 0, hi |-> 1,
       dist |-> LINEAR, manualValues |-> <<0, 1>>, delete |-> TRUE],
      [pass |-> "numAbbreviations", kind |-> "search", lo |-> 0, hi |-> maxAbbreviations,
       dist |-> LINEAR, manualValues |-> <<0, 16, 32, 64>>, delete |-> TRUE],
      [pass |-> "sparseSelectors", kind |-> "anneal", lo |-> 0, hi |-> 0,
       dist |-> LINEAR, manualValues |-> <<>>, delete |-> FALSE],
      [pass |-> "precision", kind |-> "search", lo |-> 1, hi |-> 21,
       dist |-> LINEAR, manualValues |-> <<12, 14, 16>>, delete |-> TRUE],
      [pass |-> "recipLearningRate", kind |-> "search", lo |-> 1, hi |-> 99999,
       dist |-> EXP, manualValues |-> <<500, 750, 1000, 1250, 1500>>, delete |-> TRUE]>>

\* the turns of while (temperature > targetTemperature) with temperature *= 0.99
\* from 1: 0.99^10 > 0.9 >= 0.99^11 and 0.99^229 > 0.1 >= 0.99^230
AnnealingTurns(level) == IF level >= 2 THEN 230 ELSE 11

NoInfo ==
    [pass |-> "none", current |-> <<>>, currentSize |-> 0, currentRejected |-> FALSE,
     best |-> <<>>, bestSize |-> 0, bestUpdated |-> FALSE]

NoOptimizerResult == [best |-> <<>>, bestSize |-> 0]

\* no command line around the packer
NoCli ==
    [pc |-> "none", forever |-> FALSE, level |-> 0, stop |-> FALSE,
     result |-> NoOptimizerResult, used |-> <<>>]

\* a packer nobody has called optimize on
IdleOptimizer ==
    [pc |-> "idle", level |-> 0, progress |-> FALSE, err |-> "none",
     best |-> <<>>, bestSize |-> 0, maxAbbreviations |-> -1,
     pass |-> 0, s |-> NoSearch, current |-> <<>>, currentSize |-> 0, turn |-> 0,
     trial |-> NoInfo, info |-> NoInfo, result |-> NoOptimizerResult,
     asked |-> -1, evaluations |-> 0, reports |-> 0, settled |-> 0, refused |-> 0,
     least |-> 0, packed |-> -1, cli |-> NoCli]

\* updateBest with size <= bestSize in place of size < bestSize
updateBestOnTie(w, d, current, size) ==
    IF size <= d.bestSize
    THEN [d EXCEPT !.best = copy(current), !.bestSize = size,
                   !.evaluations = @ + 1,
                   !.trial = [NoInfo EXCEPT !.current = current, !.currentSize = size,
                                             !.bestUpdated = TRUE]]
    ELSE [d EXCEPT !.evaluations = @ + 1,
                   !.trial = [NoInfo EXCEPT !.current = current, !.currentSize = size]]

\* updateBest(current), size being calculateSize(current); trial keeps
\* { size, bestUpdated }
updateBest(w, d, current, size) ==
    IF size < d.bestSize
    THEN [d EXCEPT !.best = copy(current), !.bestSize = size,
                   !.evaluations = @ + 1,
                   !.trial = [NoInfo EXCEPT !.current = current, !.currentSize = size,
                                             !.bestUpdated = TRUE]]
    ELSE [d EXCEPT !.evaluations = @ + 1,
                   !.trial = [NoInfo EXCEPT !.current = current, !.currentSize = size]]

\* the info reportProgress(pass, passRatio, current, currentSize,
\* currentRejected, bestUpdated) hands to the callback (passRatio left out)
ProgressInfo(d, pass, current, currentRejected) ==
    [d EXCEPT !.pc = "report",
              !.trial = [pass |-> pass, current |-> current,
                         currentSize |-> d.trial.currentSize,
                         currentRejected |-> currentRejected,
                         best |-> d.best, bestSize |-> d.bestSize,
                         bestUpdated |-> d.trial.bestUpdated]]

\* updateBestAndReportProgress(current, pass, passRatio) up to the call of the
\* callback
updateBestAndReportProgress(d, pass) ==
    ProgressInfo(d, pass, d.trial.current, ~d.trial.bestUpdated)

\* if (best[key] === this.options[key]) delete best[key];
DeleteIfSame(d, w, p) ==
    IF p.delete /\ Get(d.best, p.pass) = Get(w.options, p.pass)
    THEN [d EXCEPT !.best = Delete(@, p.pass)]
    ELSE d

\* this.options = { ...this.options, ...best } left out
ReturnBestUnapplied(d, w) ==
    [d |-> [d EXCEPT !.pc = "returned", !.s = NoSearch,
                     !.result = [best |-> d.best, bestSize |-> d.bestSize]],
     w |-> w]

\* this.options = { ...this.options, ...best };
\* return { elapsedMsecs, best, bestSize };
ReturnBest(d, w) ==
    [d |-> [d EXCEPT !.pc = "returned", !.s = NoSearch,
                     !.result = [best |-> d.best, bestSize |-> d.bestSize]],
     w |-> [w EXCEPT !.options = Spread(@, d.best)]]

\* the pass numbered n begun: its search up to the first score, or the
\* annealing from this.options.sparseSelectors at temperature 1
BeginPass(d, w, n, p) ==
    IF p.kind = "anneal" THEN
        [d EXCEPT !.pc = "trial", !.pass = n, !.s = NoSearch,
                  !.current = w.options.sparseSelectors,
                  !.currentSize = d.bestSize, !.turn = 0]
    ELSE
        [d EXCEPT !.pc = "trial", !.pass = n,
                  !.s = search(IF p.kind = "each" THEN 1 ELSE d.level,
                               p.lo, p.hi, p.dist, p.manualValues)]

\* whether the pass d is in has another trial to make
MoreTrials(d, p) ==
    IF p.kind = "anneal" THEN d.turn < AnnealingTurns(d.level)
    ELSE d.s.phase # "done"

\* optimize from the start of pass n on, up to the next trial or the return
RECURSIVE EnterPass(_, _, _, _)
EnterPass(d, w, n, passes) ==
    IF n > Len(passes) THEN ReturnBest(d, w)
    ELSE IF MoreTrials(BeginPass(d, w, n, passes[n]), passes[n])
         THEN [d |-> BeginPass(d, w, n, passes[n]), w |-> w]
         ELSE EnterPass(DeleteIfSame(BeginPass(d, w, n, passes[n]), w, passes[n]),
                        w, n + 1, passes)

\* the pass goes on with its next trial, or ends and the next pass begins
NextTrial(d, w, passes) ==
    IF MoreTrials(d, passes[d.pass]) THEN [d |-> [d EXCEPT !.pc = "trial"], w |-> w]
    ELSE EnterPass(DeleteIfSame(d, w, passes[d.pass]), w, d.pass + 1, passes)

\* if (!rejected) { current = next; currentSize = nextSize; } temperature *= 0.99;
Cooled(d) ==
    IF d.trial.currentRejected THEN [d EXCEPT !.turn = @ + 1]
    ELSE [d EXCEPT !.turn = @ + 1,
                   !.current = d.trial.current.sparseSelectors,
                   !.currentSize = d.trial.currentSize]

\* optimize after reportProgress has returned, up to the next trial or the
\* return
Advance(d, w, passes) ==
    IF d.pass = 0 THEN EnterPass(d, w, 1, passes)
    ELSE IF passes[d.pass].kind = "anneal" THEN NextTrial(Cooled(d), w, passes)
    ELSE NextTrial([d EXCEPT !.s = SearchScored(@, SearchPoint(@), d.trial.currentSize)],
                   w, passes)

\* the callback's false swallowed: the search goes on
AbortIgnored(d, w) == Advance(d, w, Passes(d.maxAbbreviations))

\* if (await progress(info) === false) throw new Error('search aborted');
\* nothing in optimize catches it
Abort(d, w) == [d |-> [d EXCEPT !.pc = "thrown", !.err = "search aborted"], w |-> w]

\* the rest of reportProgress once the callback's promise has settled
Settled(d, w, answer) ==
    IF answer = "false" THEN Abort([d EXCEPT !.settled = @ + 1, !.refused = @ + 1], w)
    ELSE Advance([d EXCEPT !.settled = @ + 1], w, Passes(d.maxAbbreviations))

\* a rejection drawn without regard to the sizes
RejectionsBlind(currentSize, nextSize) == {FALSE, TRUE}

\* Math.exp((currentSize - nextSize) / (6 * temperature)) < Math.random():
\* never when nextSize <= currentSize, either way otherwise
Rejections(currentSize, nextSize) ==
    IF nextSize <= currentSize THEN {FALSE} ELSE {FALSE, TRUE}

\* next[Math.random() * next.length | 0] = added; next.sort((a, b) => a - b);
AnnealNext(current, pos, added) ==
    SortSeq([current EXCEPT ![pos] = added], LAMBDA a, b : a < b)

\* optimize(level, progress) up to the report of 'initial':
\* level = level || 1; let best = {}; let bestSize = calculateSize(best);
optimize(d, w, level, progress) ==
    ProgressInfo(
        [d EXCEPT !.asked = level,
                  !.level = IF level = 0 THEN 1 ELSE level,
                  !.progress = progress,
                  !.maxAbbreviations = w.inp.maxAbbreviations,
                  !.best = <<>>,
                  !.bestSize = calculateSize(w, <<>>),
                  !.evaluations = 1,
                  !.trial = [NoInfo EXCEPT !.currentSize = calculateSize(w, <<>>),
                                           !.bestUpdated = TRUE]],
        "initial", <<>>, FALSE)

\* makeDecoder(): the length of what doPack gives under this.options, and
\* if (this.options.numAbbreviations > result.maxAbbreviations) ...
makeDecoder(d, w) ==
    [d |-> [d EXCEPT !.packed = estimateLength(w.inp, w.options)],
     w |-> [w EXCEPT !.options.numAbbreviations = Min(@, w.inp.maxAbbreviations)]]

(***************************************************************************)
(* SpecOptimize: one call of Packer.optimize on a packer, with or without  *)
(* a progress callback, the callback answering as it likes.                *)
(***************************************************************************)
\* the options packers are constructed with
PackerOptions ==
    {[sparseSelectors |-> <<0, 1>>],
     [sparseSelectors |-> <<1, 2>>, precision |-> 12, modelMaxCount |-> 4,
      modelRecipBaseCount |-> 50, recipLearningRate |-> 1000,
      numAbbreviations |-> 16, dynamicModels |-> 1]}

\* the inputs packers are constructed on
PackerInputs ==
    {[base |-> 50, auto |-> 1, maxAbbreviations |-> 64,
      suits |-> [sparseSelectors |-> {0, 1}, precision |-> 16, modelMaxCount |-> 5,
                 modelRecipBaseCount |-> 20, recipLearningRate |-> 500,
                 numAbbreviations |-> 64, dynamicModels |-> 1]],
     [base |-> 40, auto |-> 1, maxAbbreviations |-> 20,
      suits |-> [sparseSelectors |-> {2, 3}, precision |-> 14, modelMaxCount |-> 6,
                 modelRecipBaseCount |-> 100, recipLearningRate |-> 1500,
                 numAbbreviations |-> 0, dynamicModels |-> 0]],
     [base |-> 30, auto |-> 0, maxAbbreviations |-> 3,
      suits |-> [sparseSelectors |-> {1, 3}, precision |-> 20, modelMaxCount |-> 300,
                 modelRecipBaseCount |-> 7, recipLearningRate |-> 40000,
                 numAbbreviations |-> 2, dynamicModels |-> 1]]}

\* what the callback's promise settles to
Answers == {"undefined", "true", "false"}

InitOptimize ==
    /\ drv = IdleOptimizer
    /\ world \in {[options |-> NewPacker(o, inp), inp |-> inp] :
                     o \in PackerOptions, inp \in PackerInputs}
    /\ enc = NewEncoder(8, 3)
    /\ dec = NoDecoder

\* packer.optimize(level, progress) is called
OptimizeCall(level, progress) ==
    /\ drv.pc = "idle"
    /\ drv' = optimize(drv, world, level, progress)
    /\ UNCHANGED <<world, enc, dec>>

SearchTried(current, pass) ==
    drv' = updateBestAndReportProgress(
               updateBest(world, drv, current, calculateSize(world, current)), pass)

\* score(x, ratio) of a search pass, or a turn of the dynamicModels loop, up
\* to the call of the callback: { ...best, [pass]: x }
SearchTrial ==
    /\ drv.pc = "trial"
    /\ Passes(drv.maxAbbreviations)[drv.pass].kind # "anneal"
    /\ SearchTried((Passes(drv.maxAbbreviations)[drv.pass].pass :> SearchPoint(drv.s))
                       @@ drv.best,
                   Passes(drv.maxAbbreviations)[drv.pass].pass)
    /\ UNCHANGED <<world, enc, dec>>

AnnealTried(u, next, rejected) ==
    /\ rejected \in Rejections(drv.currentSize, u.trial.currentSize)
    /\ drv' = ProgressInfo(u, "sparseSelectors",
                           Spread(u.best, [sparseSelectors |-> next]), rejected)

AnnealTry(next, rejected) ==
    AnnealTried(updateBest(world, drv, Spread(drv.best, [sparseSelectors |-> next]),
                           calculateSize(world, Spread(drv.best, [sparseSelectors |-> next]))),
                next, rejected)

\* a turn of the annealing loop up to the call of the callback
AnnealTrial(added, pos, rejected) ==
    /\ drv.pc = "trial"
    /\ Passes(drv.maxAbbreviations)[drv.pass].kind = "anneal"
    /\ added \notin Elements(drv.current)
    /\ pos \in 1 .. Len(drv.current)
    /\ AnnealTry(AnnealNext(drv.current, pos, added), rejected)
    /\ UNCHANGED <<world, enc, dec>>

Continued(r) ==
    /\ drv' = r.d
    /\ world' = r.w

\* reportProgress: if (!progress) return; ... progress(info)
Report ==
    /\ drv.pc = "report"
    /\ IF drv.progress
       THEN /\ drv' = [drv EXCEPT !.pc = "callback", !.info = drv.trial,
                                  !.reports = @ + 1,
                                  !.least = IF drv.reports = 0 THEN drv.trial.currentSize
                                            ELSE Min(@, drv.trial.currentSize)]
            /\ world' = world
       ELSE Continued(Advance(drv, world, Passes(drv.maxAbbreviations)))
    /\ UNCHANGED <<enc, dec>>

\* the promise the callback returned settles
Settle(answer) ==
    /\ drv.pc = "callback"
    /\ Continued(Settled(drv, world, answer))
    /\ UNCHANGED <<enc, dec>>

\* packer.makeDecoder() once optimize has returned or thrown
MakeDecoder ==
    /\ drv.pc \in {"returned", "thrown"}
    /\ drv.packed < 0
    /\ Continued(makeDecoder(drv, world))
    /\ UNCHANGED <<enc, dec>>

NextOptimize ==
    \/ \E level \in Levels : \E progress \in BOOLEAN : OptimizeCall(level, progress)
    \/ SearchTrial
    \/ \E added \in 0 .. MaxSelector : \E pos \in 1 .. Len(drv.current) : \E rejected \in BOOLEAN :
          AnnealTrial(added, pos, rejected)
    \/ Report
    \/ \E answer \in Answers : Settle(answer)
    \/ MakeDecoder

SpecOptimize == InitOptimize /\ [][NextOptimize]_vars

\* C14: over the successive reports of one optimize call the reported bestSize
\* never increases and is never greater than any currentSize reported so far,
\* and the reported best differs from the one before only in a report whose
\* currentSize is strictly smaller than the bestSize before (a tie keeps the
\* earlier best).
C14_BestNeverWorse ==
    /\ [](drv.reports > 0 => drv.info.bestSize <= drv.least)
    /\ [][drv.reports > 0 /\ drv'.reports = drv.reports + 1 =>
             /\ drv'.info.bestSize <= drv.info.bestSize
             /\ drv'.info.best # drv.info.best =>
                    /\ drv'.info.currentSize < drv.info.bestSize
                    /\ drv'.info.bestSize = drv'.info.currentSize
                    /\ drv'.info.bestUpdated]_vars

\* a trial tied with a best found by an earlier trial and the best was kept
C14_Witness ==
    /\ drv.pc = "callback"
    /\ drv.info.pass \notin {"initial", "none"}
    /\ drv.info.currentSize = drv.info.bestSize
    /\ ~drv.info.bestUpdated
    /\ drv.info.best # <<>>
    /\ drv.info.current # drv.info.best
    /\ drv.info.bestSize = drv.least

\* C15: when the callback's result is false, optimize does not throw: it
\* returns the best parameters and the best size found up to that trial.
C15_CancelReturnsBest ==
    [][Settle("false") =>
          /\ drv'.pc = "returned"
          /\ drv'.err = "none"
          /\ drv'.result = [best |-> drv.info.best, bestSize |-> drv.info.bestSize]]_vars

\* C16: a trial's size is evaluated only when every trial before it has been
\* reported and the result of its callback awaited, and once a callback's
\* result is false no further trial is evaluated and no further report made.
C16_OneTrialAtATime ==
    /\ [](drv.settled <= drv.reports /\ drv.reports <= drv.evaluations)
    /\ [][/\ (drv'.evaluations > drv.evaluations /\ drv'.progress) =>
                (drv.reports = drv.evaluations /\ drv.settled = drv.evaluations)
          /\ drv.refused > 0 =>
                (drv'.evaluations = drv.evaluations /\ drv'.reports = drv.reports)]_vars

\* the callback's result was false in the annealing pass: every trial was
\* reported and settled, and the call is over
C16_Witness ==
    /\ drv.refused = 1
    /\ drv.pc = "thrown"
    /\ drv.info.pass = "sparseSelectors"
    /\ drv.evaluations > 12
    /\ drv.reports = drv.evaluations
    /\ drv.settled = drv.evaluations

\* C17 as stated: the annealing pass is the last pass: the trial after an
\* annealing trial is an annealing trial, and optimize returns from the
\* annealing pass.
C17_AnnealingLast ==
    [][/\ (drv.trial.pass = "sparseSelectors" /\ drv'.evaluations > drv.evaluations) =>
              drv'.trial.pass = "sparseSelectors"
       /\ (drv.pc # "returned" /\ drv'.pc = "returned") =>
              drv.trial.pass = "sparseSelectors"]_vars

PassOrder ==
    <<"initial", "modelRecipBaseCount", "modelMaxCount", "dynamicModels",
      "numAbbreviations", "sparseSelectors", "precision", "recipLearningRate">>

PassRank(pass) == CHOOSE i \in 1 .. Len(PassOrder) : PassOrder[i] = pass

\* C17: the trials of a run go through the passes in the one order initial,
\* modelRecipBaseCount, modelMaxCount, dynamicModels, numAbbreviations,
\* sparseSelectors (the annealing), precision, recipLearningRate: the
\* annealing is followed by the precision search, and optimize returns from
\* the recipLearningRate search, without error and with the best it holds.
C17_PassOrder ==
    [][/\ (drv.evaluations > 0 /\ drv'.trial.pass # drv.trial.pass) =>
              PassRank(drv'.trial.pass) > PassRank(drv.trial.pass)
       /\ (drv.trial.pass = "sparseSelectors" /\ drv'.trial.pass # drv.trial.pass) =>
              drv'.trial.pass = "precision"
       /\ (drv.pc # "returned" /\ drv'.pc = "returned") =>
              /\ drv.trial.pass = "recipLearningRate"
              /\ drv'.err = "none"
              /\ drv'.result = [best |-> drv'.best, bestSize |-> drv'.bestSize]]_vars

\* a run has returned from the recipLearningRate search with selectors the
\* annealing found and a precision the search after it found
C17_Witness ==
    /\ drv.pc = "returned"
    /\ drv.trial.pass = "recipLearningRate"
    /\ "sparseSelectors" \in DOMAIN drv.result.best
    /\ "precision" \in DOMAIN drv.result.best

\* C18: optimize called with level 0 makes no search trial and leaves the
\* options of the packer as they were.
C18_LevelZeroDoesNothing ==
    [][(drv'.asked = 0 /\ drv'.packed < 0) =>
          /\ drv'.trial.pass \in {"none", "initial"}
          /\ world'.options = world.options]_vars

\* C19: when optimize returns, the options of the packer are the options
\* before overridden by the returned best, and a makeDecoder() that follows
\* packs with every parameter of best to an estimated length of bestSize.
C19_BestApplied ==
    [][/\ (drv.pc # "returned" /\ drv'.pc = "returned") =>
              world'.options = Spread(world.options, drv'.result.best)
       /\ (drv.pc = "returned" /\ drv.packed < 0 /\ drv'.packed >= 0) =>
              /\ \A k \in DOMAIN drv.result.best : world.options[k] = drv.result.best[k]
              /\ drv'.packed = drv.result.bestSize]_vars

\* makeDecoder() after a run that found selectors and at least two more
\* parameters better than the packer's own
C19_Witness ==
    /\ drv.pc = "returned"
    /\ drv.packed = drv.result.bestSize
    /\ "sparseSelectors" \in DOMAIN drv.result.best
    /\ Cardinality(DOMAIN drv.result.best) >= 3
    /\ drv.packed < estimateLength(world.inp, NewPacker([sparseSelectors |-> <<0, 1>>], world.inp))

(***************************************************************************)
(* SpecCli: compress() of the command line (cli.mjs): the packer is        *)
(* optimized at the level of -O, or level after level for -OO, the user    *)
(* may send SIGINT, and the output is made with packer.makeDecoder().      *)
(***************************************************************************)
\* runs of -OO followed
MaxRuns == 2

\* const packed = packer.makeDecoder(); const output = ...
CliOutput(r, cli, used) ==
    [d |-> [r.d EXCEPT !.cli = [cli EXCEPT !.pc = "done", !.used = used]], w |-> r.w]

\* run(level): result = await packer.optimize(level, async info => ...) up to
\* the first report
CliRun(d, w, cli, level) ==
    [d |-> optimize([IdleOptimizer EXCEPT !.cli = [cli EXCEPT !.pc = "searching",
                                                              !.level = level]],
                    w, level, TRUE),
     w |-> w]

\* the rest of run() and of the try block once optimize has returned:
\* options = { ...options, ...result.best }, then the output, or for -OO
\* the next run
CliReturned(d, w, cli) ==
    IF ~cli.forever THEN CliOutput(makeDecoder(d, w), cli, w.options)
    ELSE IF cli.level < MaxRuns THEN CliRun(d, w, cli, cli.level + 1)
    ELSE [d |-> [d EXCEPT !.cli = [cli EXCEPT !.pc = "searching on"]], w |-> w]

\* compress() from the point the callback's own await is over: what
\* optimize does with the callback's answer, and then the catch of
\* 'search aborted', or the rest of run()
CliSettled(r, cli) ==
    IF r.d.pc = "thrown" THEN CliOutput(makeDecoder(r.d, r.w), cli, r.w.options)
    ELSE IF r.d.pc = "returned" THEN
        CliReturned(r.d, r.w, [cli EXCEPT !.result = r.d.result])
    ELSE [d |-> [r.d EXCEPT !.cli = cli], w |-> r.w]

\* the packers and inputs of the command line runs
CliWorlds ==
    {[options |-> NewPacker(o, inp), inp |-> inp] :
        o \in {[sparseSelectors |-> <<0, 1>>]},
        inp \in {i \in PackerInputs : i.maxAbbreviations < 64}}

InitCli ==
    /\ drv = [IdleOptimizer EXCEPT !.cli.pc = "start"]
    /\ world \in CliWorlds
    /\ enc = NewEncoder(8, 3)
    /\ dec = NoDecoder

\* compress() with -O level, or with -OO (forever), up to the first report
\* or, for -O0, to the output
CliCompress(level, forever) ==
    /\ drv.cli.pc = "start"
    /\ IF level = 0
       THEN Continued(CliOutput(makeDecoder(drv, world), drv.cli, world.options))
       ELSE Continued(CliRun(drv, world, [drv.cli EXCEPT !.forever = forever], level))
    /\ UNCHANGED <<enc, dec>>

\* process.once('SIGINT', () => { stop = true; }), delivered while the
\* callback awaits setImmediate
Sigint ==
    /\ drv.cli.pc = "searching"
    /\ drv.pc = "callback"
    /\ ~drv.cli.stop
    /\ drv' = [drv EXCEPT !.cli.stop = TRUE]
    /\ UNCHANGED <<world, enc, dec>>

\* the callback after its await: if (stop) { result = info; return false; }
CliSettle ==
    /\ drv.cli.pc = "searching"
    /\ drv.pc = "callback"
    /\ IF drv.cli.stop
       THEN Continued(CliSettled(Settled(drv, world, "false"),
                                 [drv.cli EXCEPT !.result = [best |-> drv.info.best,
                                                             bestSize |-> drv.info.bestSize]]))
       ELSE Continued(CliSettled(Settled(drv, world, "undefined"), drv.cli))
    /\ UNCHANGED <<enc, dec>>

NextCli ==
    \/ \E level \in Levels : CliCompress(level, FALSE)
    \/ CliCompress(1, TRUE)
    \/ Sigint
    \/ SearchTrial
    \/ \E added \in 0 .. MaxSelector : \E pos \in 1 .. Len(drv.current) :
          \E rejected \in BOOLEAN : AnnealTrial(added, pos, rejected)
    \/ Report
    \/ CliSettle

SpecCli == InitCli /\ [][NextCli]_vars

\* C20: when SIGINT has aborted the search, at whatever trial and level, the
\* output is made with the best parameters the search had found by then: the
\* packer packs under every parameter of that best, to its bestSize.
C20_AbortUsesBest ==
    (drv.cli.pc = "done" /\ drv.cli.stop /\ drv.pc = "thrown") =>
        /\ \A k \in DOMAIN drv.cli.result.best :
               drv.cli.used[k] = drv.cli.result.best[k]
        /\ drv.packed = drv.cli.result.bestSize

(***************************************************************************)
(* SpecArgs: parseArgs of the command line (cli.mjs), one argument of the  *)
(* command line after the other, then the validity checks.                 *)
(***************************************************************************)
\* arguments followed on one command line
MaxArgs == 3

\* what parseArgs holds before the first argument
NoArgs ==
    [pc |-> "parsing", err |-> "none", seen |-> {}, inputs |-> 0, options |-> <<>>,
     optimize |-> -1, forever |-> FALSE, defaultOptimize |-> 1, command |-> "none"]

\* the options taking a number, with the key of options each sets and whether
\* its branch ends with defaultOptimize = 0
NumberOptions ==
    {[opt |-> "M", key |-> "maxMemoryMB", off |-> FALSE],
     [opt |-> "Zab", key |-> "numAbbreviations", off |-> TRUE],
     [opt |-> "Zco", key |-> "contextBits", off |-> FALSE],
     [opt |-> "Zdy", key |-> "dynamicModels", off |-> FALSE],
     [opt |-> "Zlr", key |-> "recipLearningRate", off |-> TRUE],
     [opt |-> "Zmc", key |-> "modelMaxCount", off |-> TRUE],
     [opt |-> "Zmd", key |-> "modelRecipBaseCount", off |-> TRUE],
     [opt |-> "Zpr", key |-> "precision", off |-> TRUE]}

\* the numbers each option is given
NumberArgs(opt) ==
    CASE opt = "M" -> {150, 5}
      [] opt = "Zab" -> {16, 65}
      [] opt = "Zco" -> {10}
      [] opt = "Zdy" -> {1}
      [] opt = "Zlr" -> {500}
      [] opt = "Zmc" -> {4}
      [] opt = "Zmd" -> {50}
      [] OTHER -> {12}

\* the selector lists -S is given
SelectorArgs == {<<1, 2>>, <<1, 1>>, <<0, 0>>}

\* an option of NumberOptions with its argument
ParsedNumber(a, o, n) ==
    IF o.key \in DOMAIN a.options
    THEN [a EXCEPT !.pc = "thrown", !.err = "duplicate argument"]
    ELSE [a EXCEPT !.seen = @ \cup {o.opt},
                   !.options = (o.key :> n) @@ @,
                   !.defaultOptimize = IF o.off THEN 0 ELSE @]

\* -S with a list of selectors: sorted, and defaultOptimize = 0
ParsedSelectors(a, list) ==
    IF "sparseSelectors" \in DOMAIN a.options
    THEN [a EXCEPT !.pc = "thrown", !.err = "duplicate argument"]
    ELSE [a EXCEPT !.seen = @ \cup {"S"},
                   !.options = ("sparseSelectors" :> SortSeq(list, LAMBDA x, y : x < y)) @@ @,
                   !.defaultOptimize = 0]

\* -Sx with a count: defaultSparseSelectors(numContexts), counts up to 12
ParsedSelectorCount(a, numContexts) ==
    IF "sparseSelectors" \in DOMAIN a.options
    THEN [a EXCEPT !.pc = "thrown", !.err = "duplicate argument"]
    ELSE IF numContexts < 1
    THEN [a EXCEPT !.pc = "thrown", !.err = "no selectors in --selectors argument"]
    ELSE [a EXCEPT !.seen = @ \cup {"Sx"},
                   !.options = ("sparseSelectors" :>
                                   SubSeq(<<0, 1, 2, 3, 6, 7, 13, 21, 25, 42, 50, 57>>,
                                          1, numContexts)) @@ @]

\* -O with a level, or -OO
ParsedOptimize(a, level, forever) ==
    IF "O" \in a.seen
    THEN [a EXCEPT !.pc = "thrown", !.err = "duplicate --optimize arguments"]
    ELSE [a EXCEPT !.seen = @ \cup {"O"}, !.optimize = level, !.forever = forever]

\* an input path ending with .js
ParsedInput(a) == [a EXCEPT !.inputs = @ + 1]

\* between(a, v, b)
between(a, v, b) == a <= v /\ v <= b

\* options.sparseSelectors.find((sel, i) => options.sparseSelectors[i-1] === sel)
\* taken as a condition: the selector found, 0 included, or undefined
FindsDuplicate(s) ==
    \E i \in 2 .. Len(s) :
        /\ s[i - 1] = s[i]
        /\ \A j \in 2 .. i - 1 : s[j - 1] # s[j]
        /\ s[i] # 0

\* the first validity check of parseArgs that fails, "none" if none does
ArgsError(a) ==
    CASE "O" \in a.seen /\ ~a.forever /\ ~between(0, a.optimize, 2) ->
            "invalid --optimize argument"
      [] "maxMemoryMB" \in DOMAIN a.options /\ "contextBits" \in DOMAIN a.options ->
            "--max-memory and --context-bits cannot be used together"
      [] "maxMemoryMB" \in DOMAIN a.options /\ ~between(10, a.options.maxMemoryMB, 1024) ->
            "invalid --max-memory argument"
      [] "contextBits" \in DOMAIN a.options /\ ~between(1, a.options.contextBits, 30) ->
            "invalid --context-bits argument"
      [] "sparseSelectors" \in DOMAIN a.options /\ FindsDuplicate(a.options.sparseSelectors) ->
            "duplicate selector in --selectors argument"
      [] "numAbbreviations" \in DOMAIN a.options
            /\ ~between(0, a.options.numAbbreviations, 64) ->
            "invalid --num-abbreviations argument"
      [] OTHER -> "none"

\* parseArgs past its loop: optimize = defaultOptimize if -O was not given,
\* the validity checks, and the command
ArgsChecked(a) ==
    IF ArgsError(a) # "none" THEN [a EXCEPT !.pc = "thrown", !.err = ArgsError(a)]
    ELSE IF a.inputs = 0 THEN [a EXCEPT !.pc = "parsed", !.command = "default"]
    ELSE [a EXCEPT !.pc = "parsed", !.command = "compress",
                   !.optimize = IF "O" \in a.seen THEN @ ELSE a.defaultOptimize]

InitArgs ==
    /\ drv = NoArgs
    /\ world = EmptyWorld
    /\ enc = NewEncoder(8, 3)
    /\ dec = NoDecoder

ArgsGoOn ==
    /\ drv.pc = "parsing"
    /\ Cardinality(drv.seen) + drv.inputs < MaxArgs
    /\ UNCHANGED <<world, enc, dec>>

ParseNumber(o, n) == ArgsGoOn /\ drv' = ParsedNumber(drv, o, n)

ParseSelectors(list) == ArgsGoOn /\ drv' = ParsedSelectors(drv, list)

ParseSelectorCount(n) == ArgsGoOn /\ drv' = ParsedSelectorCount(drv, n)

ParseOptimize(level, forever) == ArgsGoOn /\ drv' = ParsedOptimize(drv, level, forever)

ParseInput ==
    /\ ArgsGoOn
    /\ drv.inputs = 0
    /\ drv' = ParsedInput(drv)

\* args.length is 0
ParseEnd ==
    /\ drv.pc = "parsing"
    /\ drv' = ArgsChecked(drv)
    /\ UNCHANGED <<world, enc, dec>>

NextArgs ==
    \/ \E o \in NumberOptions : \E n \in NumberArgs(o.opt) : ParseNumber(o, n)
    \/ \E list \in SelectorArgs : ParseSelectors(list)
    \/ \E n \in {0, 2, 12} : ParseSelectorCount(n)
    \/ \E level \in 0 .. 3 : ParseOptimize(level, FALSE)
    \/ ParseOptimize(1, TRUE)
    \/ ParseInput
    \/ ParseEnd

SpecArgs == InitArgs /\ [][NextArgs]_vars

\* C21: a command line without -O is parsed to level 0 when it gives a list
\* of selectors with -S, or -Zab, -Zdy, -Zlr, -Zmc, -Zmd or -Zpr, and to
\* level 1 when it gives none of them.
C21_DefaultLevel ==
    (drv.pc = "parsed" /\ drv.command = "compress" /\ "O" \notin drv.seen) =>
        drv.optimize =
            IF drv.seen \cap {"S", "Zab", "Zdy", "Zlr", "Zmc", "Zmd", "Zpr"} # {}
            THEN 0 ELSE 1

(***************************************************************************)
(* SpecLazy: a pooled DirectContextModel and a non-pooled one with the     *)
(* same parameters are given the same calls of predict, update and         *)
(* flushByte, in any order.                                                *)
(***************************************************************************)
\* the parameters of the two models
LazyOptions == Opt(1, 8, 3, 1, 2, 2, <<>>)

\* what update(actualBit, context) reads of its slot: prediction and count
SlotRead(w, m, context) ==
    <<Load(w.heap[m.predictions], PredWidth(m.o), Slot(m, context)),
      Load(w.heap[m.counts], CountWidth(m.o), Slot(m, context))>>

\* the pool after an earlier model has predicted and updated its first slot
\* with bit 1 and has been released, or a pool never used
LazyPools ==
    {EmptyWorld,
     DirectRelease(
         DirectUpdate(
             DirectPredict(NewDirectContextModel(EmptyWorld, LazyOptions, TRUE).w,
                           NewDirectContextModel(EmptyWorld, LazyOptions, TRUE).m, 0).w,
             NewDirectContextModel(EmptyWorld, LazyOptions, TRUE).m, 1, 0).w,
         NewDirectContextModel(EmptyWorld, LazyOptions, TRUE).m).w}

LazyStarted(n, r) ==
    /\ world = n.w
    /\ drv = [pc |-> "lazy", m |-> n.m, ref |-> r.m, refw |-> r.w,
              got |-> -1, want |-> -1, read |-> <<>>, refRead |-> <<>>]

InitLazy ==
    /\ \E pool \in LazyPools :
          LazyStarted(NewDirectContextModel(pool, LazyOptions, TRUE),
                      NewDirectContextModel(EmptyWorld, LazyOptions, FALSE))
    /\ enc = NewEncoder(8, 1)
    /\ dec = NoDecoder

LazyPredicted(p, r) ==
    /\ world' = p.w
    /\ drv' = [drv EXCEPT !.refw = r.w, !.got = p.p, !.want = r.p]

\* predict(context) on both models
LazyPredict(context) ==
    /\ drv.pc = "lazy"
    /\ LazyPredicted(DirectPredict(world, drv.m, context),
                     DirectPredict(drv.refw, drv.ref, context))
    /\ UNCHANGED <<enc, dec>>

LazyUpdated(u, r, read, refRead) ==
    /\ world' = u.w
    /\ drv' = [drv EXCEPT !.m = u.m, !.ref = r.m, !.refw = r.w,
                          !.read = read, !.refRead = refRead]

\* update(actualBit, context) on both models, whether or not predict(context)
\* came before
LazyUpdate(actualBit, context) ==
    /\ drv.pc = "lazy"
    /\ drv.m.bitContext < 2 ^ drv.m.o.inBits
    /\ LazyUpdated(DirectUpdate(world, drv.m, actualBit, context),
                   DirectUpdate(drv.refw, drv.ref, actualBit, context),
                   SlotRead(world, drv.m, context),
                   SlotRead(drv.refw, drv.ref, context))
    /\ UNCHANGED <<enc, dec>>

\* flushByte() on both models
LazyFlushByte ==
    /\ drv.pc = "lazy"
    /\ drv.m.bitContext # 1
    /\ drv' = [drv EXCEPT !.m = DirectFlushByte(@), !.ref = DirectFlushByte(@)]
    /\ UNCHANGED <<world, enc, dec>>

NextLazy ==
    \/ \E context \in {0, 1} : LazyPredict(context)
    \/ \E actualBit \in {0, 1} : \E context \in {0, 1} : LazyUpdate(actualBit, context)
    \/ LazyFlushByte

SpecLazy == InitLazy /\ [][NextLazy]_vars

\* C22: whatever the calls, update on a slot not predicted before included,
\* the pooled model returns the predictions, and its update reads the
\* prediction and count, of a model whose table was reset at construction.
C22_LooksFresh ==
    drv.pc = "lazy" => (drv.got = drv.want /\ drv.read = drv.refRead)

(***************************************************************************)
(* SpecQuote: a DefaultModel, with quotes modelled or not, is given bytes  *)
(* to flush in any order.                                                  *)
(***************************************************************************)
QuoteOptions ==
    { DefaultOpt(8, 1, <<0, 3>>, TRUE, <<>>),
      DefaultOpt(8, 1, <<0, 3>>, FALSE, <<>>) }

\* the bytes flushed: the three quotes, a letter, a backslash
QuoteBytes == {34, 39, 96, 97, 92}

QuoteStarted(n) ==
    /\ world = n.w
    /\ drv = [pc |-> "quote", m |-> n.m, before |-> 0, seenBefore |-> {},
              currentByte |-> -1, thrown |-> "none"]

InitQuote ==
    /\ \E o \in QuoteOptions : QuoteStarted(NewDefaultModel(EmptyWorld, o, FALSE))
    /\ enc = NewEncoder(8, 1)
    /\ dec = NoDecoder

\* model.flushByte(currentByte, inBits)
QuoteFlushByte(currentByte) ==
    /\ drv.pc = "quote"
    /\ drv' = [drv EXCEPT !.m = DefaultFlushByte(@, currentByte),
                          !.before = drv.m.quote,
                          !.seenBefore = drv.m.quotesSeen,
                          !.currentByte = currentByte]
    /\ UNCHANGED <<world, enc, dec>>

NextQuoteStep == \E currentByte \in QuoteBytes : QuoteFlushByte(currentByte)

SpecQuote == InitQuote /\ [][NextQuoteStep]_vars

\* C23: with quotes modelled, after every flushByte the quote is 0 or one of
\* 34, 39, 96; from 0 it becomes the flushed byte exactly when that byte is a
\* quote byte, which is then in quotesSeen; from an open quote it returns to 0
\* exactly when the flushed byte is that quote and otherwise stays; nothing is
\* thrown; with quotes not modelled the quote stays 0 and quotesSeen empty.
C23_QuoteState ==
    (drv.pc = "quote" /\ drv.currentByte # -1) =>
        /\ drv.thrown = "none"
        /\ drv.m.o.modelQuotes =>
              /\ drv.m.quote \in {0, 34, 39, 96}
              /\ drv.m.quotesSeen \subseteq {34, 39, 96}
              /\ drv.before = 0 =>
                    /\ (drv.m.quote = drv.currentByte) <=> (drv.currentByte \in {34, 39, 96})
                    /\ drv.m.quote \in {0, drv.currentByte}
                    /\ drv.m.quotesSeen =
                          IF drv.currentByte \in {34, 39, 96}
                          THEN drv.seenBefore \cup {drv.currentByte} ELSE drv.seenBefore
              /\ drv.before # 0 =>
                    /\ (drv.m.quote = 0) <=> (drv.currentByte = drv.before)
                    /\ drv.m.quote \in {0, drv.before}
                    /\ drv.m.quotesSeen = drv.seenBefore
        /\ ~drv.m.o.modelQuotes => (drv.m.quote = 0 /\ drv.m.quotesSeen = {})

\* a double quote is open, a single quote is flushed, the double quote stays
C23_Witness ==
    /\ drv.pc = "quote"
    /\ drv.m.o.modelQuotes
    /\ drv.before = 34
    /\ drv.currentByte = 39
    /\ drv.m.quote = 34

\* C24: no report of a trial has bestUpdated together with currentRejected; a
\* candidate of the annealing pass that improves the best size is accepted.
C24_ImprovementAccepted ==
    /\ drv.pc \in {"report", "callback"} =>
          ~(drv.trial.bestUpdated /\ drv.trial.currentRejected)
    /\ drv.reports > 0 => ~(drv.info.bestUpdated /\ drv.info.currentRejected)

\* the annealing pass reports a candidate that improved the best size
C24_Witness ==
    /\ drv.pc = "callback"
    /\ drv.info.pass = "sparseSelectors"
    /\ drv.info.bestUpdated
    /\ ~drv.info.currentRejected
    /\ drv.info.currentSize < drv.currentSize

(***************************************************************************)
(* SpecSearch: search(lo, hi, dist, manualValues, score) of optimize for   *)
(* any range and any score function, followed by the annealing loop with   *)
(* any sizes.                                                              *)
(***************************************************************************)
\* the widest range searched
MaxRange == 8

\* the scores and sizes the oracle answers with
Scores == 0 .. 2

SearchRanges ==
    [dist : {LINEAR}, lo : 0 .. 1, width : 0 .. MaxRange]
    \cup [dist : {EXP}, lo : 1 .. 3, width : 0 .. MaxRange]

\* where the run is once the search is at s
AfterSearch(s) == IF s.phase = "done" THEN "searched" ELSE "search"

SearchStarted(level, r, s) ==
    drv = [pc |-> AfterSearch(s), level |-> level, s |-> s, dist |-> r.dist,
           lo |-> r.lo, hi |-> r.lo + r.width, before |-> s, evaluated |-> {},
           trials |-> 0, turn |-> 0, currentSize |-> 0]

InitSearch ==
    /\ \E level \in {1, 2} : \E r \in SearchRanges :
          SearchStarted(level, r, search(level, r.lo, r.lo + r.width, r.dist, <<4, 5, 6>>))
    /\ world = EmptyWorld
    /\ enc = NewEncoder(8, 1)
    /\ dec = NoDecoder

\* score(x, ratio) answers y; the same x has the same answer
SearchScore(y) ==
    /\ drv.pc = "search"
    /\ SearchPoint(drv.s) \in DOMAIN drv.s.cache => y = drv.s.cache[SearchPoint(drv.s)]
    /\ drv' = [drv EXCEPT !.s = SearchScored(@, SearchPoint(@), y),
                          !.pc = AfterSearch(SearchScored(drv.s, SearchPoint(drv.s), y)),
                          !.before = drv.s,
                          !.evaluated = @ \cup {SearchPoint(drv.s)},
                          !.trials = @ + 1]
    /\ UNCHANGED <<world, enc, dec>>

\* search has returned: let current = ...; let currentSize = bestSize;
\* let temperature = 1;
AnnealBegin(bestSize) ==
    /\ drv.pc = "searched"
    /\ drv' = [drv EXCEPT !.pc = "anneal", !.s = NoSearch, !.before = NoSearch,
                          !.evaluated = {}, !.trials = 0, !.turn = 0, !.currentSize = bestSize]
    /\ UNCHANGED <<world, enc, dec>>

\* a turn of while (temperature > targetTemperature), the candidate of size
\* nextSize
AnnealTurn(nextSize, rejected) ==
    /\ drv.pc = "anneal"
    /\ rejected \in Rejections(drv.currentSize, nextSize)
    /\ drv' = [drv EXCEPT !.turn = @ + 1,
                          !.currentSize = IF rejected THEN @ ELSE nextSize,
                          !.pc = IF drv.turn + 1 < AnnealingTurns(drv.level)
                                 THEN "anneal" ELSE "returned"]
    /\ UNCHANGED <<world, enc, dec>>

NextSearch ==
    \/ \E y \in Scores : SearchScore(y)
    \/ \E bestSize \in Scores : AnnealBegin(bestSize)
    \/ \E nextSize \in Scores : \E rejected \in BOOLEAN : AnnealTurn(nextSize, rejected)

SpecSearch == InitSearch /\ [][NextSearch]_vars

\* C25: when a search of level 2 returns, every integer from lo to hi of its
\* last range, lo and hi included, has been given to score.
C25_FinalRangeEvaluated ==
    (drv.pc = "searched" /\ drv.level >= 2) =>
        \A x \in drv.s.lo .. drv.s.hi : x \in drv.evaluated

\* the five points of a round score differently where they differ, so the
\* least of them can be the one numbered min
MinCanBe(xx, min) == \A j \in 1 .. min - 1 : xx[j] # xx[min]

\* C26: in every round of the loop of search the midpoints lie strictly
\* between their arguments when these differ by 2 or more, and whichever of
\* the five points scores least, the new range is strictly narrower than the
\* old one; the scores asked for are at most 5 for each unit of the range's
\* width and 3 more; the annealing loop takes 11 turns below level 2 and 230
\* from level 2 on, whatever the sizes.
C26_Terminates ==
    /\ (drv.pc = "search" /\ drv.s.phase = "five") =>
          /\ drv.s.hi - drv.s.lo >= 4
          /\ \A a, b \in {drv.s.lo, drv.s.q2, drv.s.hi} :
                b - a >= 2 => (a < mid(drv.s.dist, a, b) /\ mid(drv.s.dist, a, b) < b)
          /\ \A min \in 1 .. 5 :
                MinCanBe(SearchXx(drv.s), min) =>
                    SearchNarrow(drv.s, SearchXx(drv.s), min).hi
                        - SearchNarrow(drv.s, SearchXx(drv.s), min).lo
                    < drv.s.hi - drv.s.lo
    /\ drv.pc \in {"search", "searched"} =>
          /\ drv.s.hi - drv.s.lo <= drv.before.hi - drv.before.lo
          /\ drv.trials <= 5 * (drv.hi - drv.lo) + 3
    /\ drv.pc = "anneal" => drv.turn < AnnealingTurns(drv.level)
    /\ drv.pc = "returned" =>
          drv.turn = (IF drv.level >= 2 THEN 230 ELSE 11)

\* a search is at its second round of five points, its range narrowed by the
\* first round
C26_Witness ==
    /\ drv.pc = "search"
    /\ drv.s.phase = "five"
    /\ drv.s.dist = EXP
    /\ drv.s.hi - drv.s.lo < drv.hi - drv.lo
    /\ drv.before.phase = "five"

(***************************************************************************)
(* SpecMemory: contextBitsFromMaxMemory for option records with a memory   *)
(* budget.  Numbers beyond 2^31 are pairs <<q, r>> standing for            *)
(* q * 2^20 + r with r < 2^20, as the doubles of the source hold them      *)
(* exactly; sparseSelectors.length << contextBits is a 32-bit shift.       *)
(***************************************************************************)
BigOf(x) == <<x \div 1048576, x % 1048576>>

\* b * k for k < 2048
BigTimes(b, k) == <<b[1] * k + (b[2] * k) \div 1048576, (b[2] * k) % 1048576>>

BigLeq(a, b) == a[1] < b[1] \/ (a[1] = b[1] /\ a[2] <= b[2])

\* b * 2^n for n <= 31, ten bits at a time
BigShl(b, n) ==
    IF n <= 0 THEN b
    ELSE IF n <= 10 THEN BigTimes(b, 2 ^ n)
    ELSE IF n <= 20 THEN BigTimes(BigTimes(b, 1024), 2 ^ (n - 10))
    ELSE IF n <= 30 THEN BigTimes(BigTimes(BigTimes(b, 1024), 1024), 2 ^ (n - 20))
    ELSE BigTimes(BigTimes(BigTimes(BigTimes(b, 1024), 1024), 1024), 2 ^ (n - 30))

\* floorLog2(x, y): each line is if (x >= y * k) y *= k, n += log2(k)
floorLog2(x, y) ==
    LET a1 == BigLeq(BigShl(y, 16), x)
        y1 == IF a1 THEN BigShl(y, 16) ELSE y
        n1 == IF a1 THEN 16 ELSE 0
        a2 == BigLeq(BigShl(y1, 8), x)
        y2 == IF a2 THEN BigShl(y1, 8) ELSE y1
        n2 == IF a2 THEN n1 + 8 ELSE n1
        a3 == BigLeq(BigShl(y2, 4), x)
        y3 == IF a3 THEN BigShl(y2, 4) ELSE y2
        n3 == IF a3 THEN n2 + 4 ELSE n2
        a4 == BigLeq(BigShl(y3, 2), x)
        y4 == IF a4 THEN BigShl(y3, 2) ELSE y3
        n4 == IF a4 THEN n3 + 2 ELSE n3
    IN  IF BigLeq(BigShl(y4, 1), x) THEN n4 + 1 ELSE n4

\* while (v >= tens * 100) { ++exp; tens *= 10; }: the number of turns of
\* the loop, tens being 10^exp at the test of turn exp
ApproximateExp(v) ==
    Cardinality({exp \in 0 .. 9 : BigLeq(BigTimes(BigOf(10 ^ exp), 100), v)})

\* Math.ceil(v / tens), the least mant with v <= mant * tens
ApproximateMant(v, exp) ==
    1 + Cardinality({less \in 1 .. 99 : ~BigLeq(v, BigTimes(BigOf(10 ^ exp), less))})

\* [mant, exp, mant * tens] once mant is known
Approximated(mant, exp) ==
    IF mant % 10 = 0 THEN <<mant \div 10, exp + 1, BigTimes(BigOf(10 ^ exp), mant)>>
    ELSE <<mant, exp, BigTimes(BigOf(10 ^ exp), mant)>>

\* approximateWithTwoSigDigits(v) for v a pair
approximateWithTwoSigDigits(v) ==
    IF v = <<0, 0>> THEN <<0, 0, <<0, 0>>>>
    ELSE Approximated(ApproximateMant(v, ApproximateExp(v)), ApproximateExp(v))

\* approximateWithTwoSigDigits(v) for v a 32-bit integer: if (v <= 0) return [0, 0, 0]
approximateInt32(v) ==
    IF v <= 0 THEN <<0, 0, <<0, 0>>>> ELSE approximateWithTwoSigDigits(BigOf(v))

predictionBytesPerContext(options) ==
    IF options.precision <= 8 THEN 1 ELSE IF options.precision <= 16 THEN 2 ELSE 4

countBytesPerContext(options) ==
    IF options.modelMaxCount < 128 THEN 1 ELSE IF options.modelMaxCount < 32768 THEN 2 ELSE 4

bytesPerContext(options) ==
    predictionBytesPerContext(options) + countBytesPerContext(options)

\* options.maxMemoryMB * 1048576
MemoryBudget(options) == <<options.maxMemoryMB, 0>>

\* if (actualNumContexts * bytesPerContext > options.maxMemoryMB * 1048576) --contextBits;
ContextBitsChecked(options, contextBits) ==
    IF BigLeq(BigTimes(approximateInt32(
                           Shl32(Len(options.sparseSelectors), contextBits))[3],
                       bytesPerContext(options)),
              MemoryBudget(options))
    THEN contextBits ELSE contextBits - 1

\* the check of the actual memory usage left out
ContextBitsUnchecked(options) ==
    floorLog2(MemoryBudget(options),
              BigOf(Len(options.sparseSelectors) * bytesPerContext(options)))

contextBitsFromMaxMemory(options) ==
    ContextBitsChecked(options,
        floorLog2(MemoryBudget(options),
                  BigOf(Len(options.sparseSelectors) * bytesPerContext(options))))

\* the bytes of the decoder's tables: the approximation of
\* sparseSelectors.length * 2^contextBits, times the bytes of a context
TableBytes(options, contextBits) ==
    BigTimes(approximateWithTwoSigDigits(
                 BigShl(BigOf(Len(options.sparseSelectors)), contextBits))[3],
             bytesPerContext(options))

\* the budgets of the command line (10 to 1024), the budgets of the tests
\* (1 and 5), and larger ones
MemoryBudgets == {1, 5, 10, 11, 12, 13, 14, 15, 16, 100, 150, 1000, 1024, 4096, 9216}

MemoryOptions ==
    [maxMemoryMB : MemoryBudgets, sparseSelectors : {Upto(n) : n \in 1 .. 64},
     precision : {8, 16, 21}, modelMaxCount : {5, 128, 32768}]

InitMemory ==
    /\ \E options \in MemoryOptions :
          drv = [pc |-> "options", options |-> options, contextBits |-> 0]
    /\ world = EmptyWorld
    /\ enc = NewEncoder(8, 1)
    /\ dec = NoDecoder

\* const contextBits = options.contextBits || contextBitsFromMaxMemory(options);
ChooseContextBits ==
    /\ drv.pc = "options"
    /\ drv' = [drv EXCEPT !.pc = "chosen",
                          !.contextBits = contextBitsFromMaxMemory(drv.options)]
    /\ UNCHANGED <<world, enc, dec>>

NextMemory == ChooseContextBits

SpecMemory == InitMemory /\ [][NextMemory]_vars

\* C27: for every option record with a memory budget, the tables of the
\* chosen contextBits take at most maxMemoryMB * 2^20 bytes.
C27_WithinBudget ==
    drv.pc = "chosen" =>
        BigLeq(TableBytes(drv.options, drv.contextBits), MemoryBudget(drv.options))

\* the same for the budgets up to 1024 MB
C27_WithinBudgetTo1024 ==
    (drv.pc = "chosen" /\ drv.options.maxMemoryMB <= 1024) =>
        BigLeq(TableBytes(drv.options, drv.contextBits), MemoryBudget(drv.options))

\* a budget up to 1024 MB where the check of the actual usage lowered contextBits
C27_Lowered ==
    /\ drv.pc = "chosen"
    /\ drv.options.maxMemoryMB <= 1024
    /\ drv.contextBits = ContextBitsUnchecked(drv.options) - 1

(***************************************************************************)
(* SpecRunner: one runner of makeDefaultModelRunner(0) called again and    *)
(* again with parameters and inputs that change the layout of its memory.  *)
(***************************************************************************)
\* the calls in a behaviour, a run of calls with the empty input not counted
MaxCalls == 3

\* context regions of 12, 48 and 98304 bytes: the second covers the input and
\* output of the first, the last makes the memory grow
RunnerOptions ==
    { DefaultOpt(2, 2, <<0>>, FALSE, <<>>),
      DefaultOpt(2, 3, <<0, 1>>, FALSE, <<>>),
      DefaultOpt(2, 14, <<0, 1>>, FALSE, <<>>) }

\* inputs whose bytes are marks of the calls to come
RunnerInputs == { <<>>, <<0, 2>>, <<3, 3>> }

\* numbers of calls with the empty input made in one step
RunnerIdleCounts == {252, 253}

InitRunner ==
    /\ drv = [pc |-> "runner", rn |-> NewRunner(0), before |-> NewRunner(0),
              entered |-> NewRunner(0),
              o |-> DefaultOpt(2, 2, <<0>>, FALSE, <<>>), input |-> <<>>,
              calls |-> 0, idle |-> 0]
    /\ world = EmptyWorld
    /\ enc = NewEncoder(8, 1)
    /\ dec = NoDecoder

\* runDefaultModel(input, options) on the runner; before is the runner as the
\* call finds it, entered the runner as the call of run finds it
RunnerCall(o, input) ==
    /\ drv.pc = "runner"
    /\ drv.calls < MaxCalls
    /\ getContextItemShift(o) <= drv.rn.contextItemShift
    /\ drv' = [drv EXCEPT !.rn = runDefaultModel(drv.rn, o, input).rn,
                          !.before = drv.rn,
                          !.entered = RunnerEnter(drv.rn, o, input),
                          !.o = o, !.input = input, !.calls = @ + 1]
    /\ UNCHANGED <<world, enc, dec>>

\* n calls with the empty input and the parameters of the last call
RunnerIdleCalls(n) ==
    /\ drv.pc = "runner"
    /\ drv.idle = 0
    /\ drv' = [drv EXCEPT !.rn = IdleRunner(@, drv.o, n), !.idle = n]
    /\ UNCHANGED <<world, enc, dec>>

NextRunner ==
    \/ \E o \in RunnerOptions : \E input \in RunnerInputs : RunnerCall(o, input)
    \/ \E n \in RunnerIdleCounts : RunnerIdleCalls(n)

SpecRunner == InitRunner /\ [][NextRunner]_vars

\* the context items of the call's region that hold a byte other than 0
ItemsNotZero(rn, o) ==
    { (a - M_CONTEXTS) \div (3 * (2 ^ rn.contextItemShift)) :
        a \in { b \in DOMAIN rn.mem : b >= M_CONTEXTS /\ b < M_PREGAP(o, rn.contextItemShift) } }

\* the address of the mark of context item k
MarkCell(rn, k) == M_CONTEXTS + k * 3 * (2 ^ rn.contextItemShift)

\* C28: when run is called, no mark cell of the call's context region holds
\* the mark of the call: the mark is not 0, and no item that is not all zero
\* has it in its mark cell.
C28_NoStaleMark ==
    drv.calls > 0 =>
        /\ drv.entered.mark >= 1
        /\ \A k \in ItemsNotZero(drv.entered, drv.o) :
              MemLoad(drv.entered.mem, MarkCell(drv.entered, k),
                      2 ^ drv.entered.contextItemShift) # drv.entered.mark

\* a call whose context region covers the input of the call before it, a byte
\* of which, where a mark cell now is, was the mark of this call
C28_Witness ==
    /\ drv.calls = 2
    /\ drv.input # <<>>
    /\ drv.before.contextsEnd = M_CONTEXTS + 12
    /\ MemLoad8(drv.before.mem, MarkCell(drv.before, 15)) = 2
    /\ drv.entered.mark = 2
    /\ M_PREGAP(drv.o, 0) = M_CONTEXTS + 48

\* a call after the mark has wrapped
C28_WitnessWrapped ==
    /\ drv.calls = 3
    /\ drv.idle = 253
    /\ drv.entered.mark = 1
    /\ drv.input # <<>>

(***************************************************************************)
(* SpecMix: a DefaultModel of two models whose weights start anywhere      *)
(* predicts and is updated with any bits.                                  *)
(***************************************************************************)
\* the bits predicted in a behaviour
MaxMixBits == 4

\* the weights the mixer starts with: -8, -1, 0, 1, 8
MixWeights == {-8 * FixedOne, -FixedOne, 0, FixedOne, 8 * FixedOne}

MixOptions == DefaultOpt(2, 2, <<0, 1>>, FALSE, <<>>)

MixStarted(n, weights) ==
    /\ world = n.w
    /\ drv = [pc |-> "mix", m |-> [n.m EXCEPT !.weights = weights], p |-> -1,
              bits |-> 0, byte |-> 0]

InitMix ==
    /\ \E w1 \in MixWeights : \E w2 \in MixWeights :
          MixStarted(NewDefaultModel(EmptyWorld, MixOptions, FALSE), <<w1, w2>>)
    /\ enc = NewEncoder(8, 3)
    /\ dec = NoDecoder

MixPredicted(r) ==
    /\ world' = r.ms.w
    /\ drv' = [drv EXCEPT !.pc = "predicted", !.m = r.ms.m, !.p = r.p]

\* model.predict()
MixPredictBit ==
    /\ drv.pc = "mix"
    /\ drv.bits < MaxMixBits
    /\ MixPredicted(DefaultPredict(world, drv.m, 0))
    /\ UNCHANGED <<enc, dec>>

MixUpdated(r, bit) ==
    /\ world' = r.w
    /\ drv' = [drv EXCEPT !.pc = IF (drv.bits + 1) % MixOptions.inBits = 0
                                 THEN "flush" ELSE "mix",
                          !.m = r.m, !.bits = @ + 1, !.byte = 2 * @ + bit]

\* model.update(bit)
MixUpdateBit(bit) ==
    /\ drv.pc = "predicted"
    /\ MixUpdated(DefaultUpdate(world, drv.m, bit, 0), bit)
    /\ UNCHANGED <<enc, dec>>

\* model.flushByte(code, inBits)
MixFlushByte ==
    /\ drv.pc = "flush"
    /\ drv' = [drv EXCEPT !.pc = "mix", !.m = DefaultFlushByte(@, drv.byte), !.byte = 0]
    /\ UNCHANGED <<world, enc, dec>>

NextMix ==
    \/ MixPredictBit
    \/ \E bit \in {0, 1} : MixUpdateBit(bit)
    \/ MixFlushByte

SpecMix == InitMix /\ [][NextMix]_vars

\* C29: every prediction the mixer returns is in 0 .. 2^precision - 1.
C29_PredictionInRange ==
    drv.pc = "predicted" => drv.p \in 0 .. 2 ^ drv.m.o.precision - 1

\* the weighted sum is large and the prediction is the largest there is
C29_Witness ==
    /\ drv.pc = "predicted"
    /\ drv.bits > 0
    /\ drv.p = 2 ^ drv.m.o.precision - 1
    /\ drv.m.mixedProb = 2 * (2 ^ drv.m.o.precision) - 1

\* the weighted sum is far below 0 and the prediction is 0
C29_WitnessLow ==
    /\ drv.pc = "predicted"
    /\ drv.bits > 0
    /\ drv.p = 0

(***************************************************************************)
(* The decoder against the states of finish().                             *)
(***************************************************************************)
\* finish() at the start of its loop
FinishStarted(e) ==
    [e EXCEPT !.state = RenormLimit(e.outBits), !.buf = <<>>,
              !.pending = Reverse(e.input), !.pc = "encoding"]

\* finish() after k iterations of its loop
RECURSIVE EncodedAfter(_, _)
EncodedNext(e) == EncodeOne(e, Head(e.pending))

EncodedAfter(e, k) == IF k = 0 THEN FinishStarted(e) ELSE EncodedNext(EncodedAfter(e, k - 1))

\* the decoder that has read j bits is where finish() was after its first
\* n - j iterations: the same state, and as many symbols left in buf as
\* finish() had pushed by then
DecoderAt(d, e) ==
    /\ d.state = e.state
    /\ Len(d.buf) - d.offset = Len(e.buf)

\* C30: a decoder of the stream finish() returned, given the same frequencies,
\* never throws; after each readBit its state is at least renormLimit and is
\* the state finish() had before it added that bit, with the symbols pushed
\* since then consumed; after the last bit its state is the initial state of
\* finish() and all of buf is consumed.
C30_ReverseStates ==
    dec.pc # "none" =>
        /\ dec.pc = "reading"
        /\ dec.state >= dec.renormLimit
        /\ DecoderAt(dec, EncodedAfter(enc, Len(enc.input) - Len(dec.out)))
        /\ Len(dec.out) = Len(enc.input) =>
              (dec.state = RenormLimit(enc.outBits) /\ dec.offset = Len(dec.buf))

\* all the bits of a three-bit input read back over a three-symbol alphabet,
\* the whole buffer consumed, one symbol or more by the last readBit
C30_Witness ==
    /\ dec.pc = "reading"
    /\ enc.outBits = -3
    /\ Len(enc.input) = 3
    /\ Len(dec.out) = 3
    /\ dec.offset = Len(dec.buf)
    /\ Len(EncodedAfter(enc, 1).buf) > 0

=============================================================================
